---- MODULE Spec2Model ----
(***************************************************************************)
(* Model of the play-by-play engine and the season handlers of app.py.     *)
(*                                                                         *)
(* Text is modelled at word level: a line is a sequence of words, a word   *)
(* is a string, words are separated by one blank, and the word WS stands   *)
(* for one extra white-space character.  The vocabulary has no quotes and  *)
(* no parentheses; its only punctuation is the comma, the word COMMA,      *)
(* which follows the word before it without a blank.  Player names are     *)
(* sequences of words.                                                     *)
(* A key of a stat record is a string; a stat record is a function from    *)
(* keys to counts, as the dicts of the program are.                        *)
(***************************************************************************)
EXTENDS Integers, Sequences, FiniteSets, TLC

(***************************************************************************)
(* Engine constants                                                        *)
(***************************************************************************)
LOCATION_KEYS == <<"LF", "CF", "RF", "3B", "SS", "2B", "1B", "P">>

BALLTYPE_KEYS == <<"GB", "FB">>

SeqToSet(s) == {s[i] : i \in 1..Len(s)}

COMBO_LOCS == {loc \in SeqToSet(LOCATION_KEYS) : loc \notin {"BUNT", "UNKNOWN"}}

ComboKey(bt, loc) == bt \o "-" \o loc

COMBO_KEYS == {ComboKey("GB", loc) : loc \in COMBO_LOCS} \cup {ComboKey("FB", loc) : loc \in COMBO_LOCS}

RUN_KEYS == {"SB", "SB-2B", "SB-3B", "CS", "CS-2B", "CS-3B"}

GP_KEY == "GP"

BUNTS_KEY == "Bunts"

AllKeys == SeqToSet(LOCATION_KEYS) \cup SeqToSet(BALLTYPE_KEYS) \cup COMBO_KEYS \cup RUN_KEYS \cup {GP_KEY, BUNTS_KEY}

empty_stat_dict == [k \in AllKeys |-> 0]

\* a load that adds no key
ensure_all_keys_Identity(d) == d

ensure_all_keys(d) == [k \in AllKeys \cup DOMAIN d |-> IF k \in DOMAIN d THEN d[k] ELSE 0]

\* None, for a string, and for a player name
None == "None"

NoPlayer == << >>

(***************************************************************************)
(* Words.  Lower is str.lower() on the words of the vocabulary; a word     *)
(* that is missing from LowerMap has no capital letter.                    *)
(***************************************************************************)
WS == "_"

COMMA == ","

LowerMap == [w \in {"J", "T", "B", "Smith", "Jones", "Top", "Bottom", "Courtesy"} |->
               CASE w = "J" -> "j" [] w = "T" -> "t" [] w = "B" -> "b"
                 [] w = "Smith" -> "smith" [] w = "Jones" -> "jones"
                 [] w = "Top" -> "top" [] w = "Bottom" -> "bottom"
                 [] w = "Courtesy" -> "courtesy"]

Lower(w) == IF w \in DOMAIN LowerMap THEN LowerMap[w] ELSE w

LowerLine(l) == [i \in 1..Len(l) |-> Lower(l[i])]

\* words of the vocabulary whose first character is not a letter
NonAlphaStart == {"2nd", "3rd", "1st", WS, COMMA}

\* <<w, p>>: p is a proper prefix / proper suffix / inner part of the word w
ProperPrefix == {<<"bunts", "bunt">>, <<"left-center", "left">>, <<"right-center", "right">>,
                 <<"bats", "bat">>, <<"pitcher", "pitch">>, <<"doubles", "double">>, <<"triples", "triple">>}

ProperSuffix == {<<"into", "to">>}

StartsWith(w, p) == (p = "" /\ w # COMMA) \/ w = p \/ <<w, p>> \in ProperPrefix

EndsWith(w, p) == p = "" \/ w = p \/ <<w, p>> \in ProperSuffix

Contains(w, p) == StartsWith(w, p) \/ EndsWith(w, p)

\* kw occurs in the line ll as a substring that starts in word i.  A phrase
\* is a sequence of words; a first or last word "" stands for a leading or
\* trailing blank of the phrase.
MatchAt(ll, kw, i) ==
    LET n == Len(kw) IN
    /\ i >= 1
    /\ i + n - 1 <= Len(ll)
    /\ IF n = 1 THEN Contains(ll[i], kw[1])
       ELSE /\ EndsWith(ll[i], kw[1])
            /\ StartsWith(ll[i + n - 1], kw[n])
            /\ \A j \in 2..(n - 1) : ll[i + j - 1] = kw[j]

HasPhrase(ll, kw) == \E i \in 1..Len(ll) : MatchAt(ll, kw, i)

HasAny(ll, kws) == \E kw \in kws : HasPhrase(ll, kw)

\* re.search of \bword\b for a set of alternative words
HasWord(ll, ws) == \E i \in 1..Len(ll) : ll[i] \in ws

\* line.strip(): leading and trailing white space removed
RECURSIVE StripLeft(_)
StripLeft(l) == IF l # << >> /\ Head(l) = WS THEN StripLeft(Tail(l)) ELSE l

RECURSIVE StripRight(_)
StripRight(l) == IF l # << >> /\ l[Len(l)] = WS THEN StripRight(SubSeq(l, 1, Len(l) - 1)) ELSE l

Strip(l) == StripRight(StripLeft(l))

\* re.sub(r"\s+", " ", s).strip(): runs of white space collapsed
Collapse(l) == SelectSeq(l, LAMBDA w : w # WS)

(***************************************************************************)
(* Roster resolver                                                         *)
(***************************************************************************)
BAD_FIRST_TOKENS == {"top", "bottom", "inning", "pitch", "ball", "strike", "foul",
                     "runner", "runners", "advances", "advance", "steals", "stole", "caught",
                     "substitution", "defensive", "offensive", "double", "triple", "single", "home",
                     "out", "safe", "error", "no", "one", "two", "three"}

starts_like_name(token) == Lower(token) \notin NonAlphaStart /\ Lower(token) \notin BAD_FIRST_TOKENS

\* l = p or l.startswith(p + " ")
IsPrefix(p, l) ==
    /\ Len(p) <= Len(l)
    /\ SubSeq(l, 1, Len(p)) = p
    /\ Len(p) < Len(l) => l[Len(p) + 1] # COMMA

\* line is a cleaned line.  The roster names that are a prefix of the line are
\* prefixes of one another, so the longest one is the one with most words.
get_batter_name(line, roster) ==
    IF line = << >> THEN NoPlayer
    ELSE IF ~starts_like_name(line[1]) THEN NoPlayer
    ELSE LET hits == {r \in roster : r # << >> /\ IsPrefix(r, line)}
             candidate == <<line[1], line[Len(line)]>>
         IN  IF hits # {} THEN CHOOSE r \in hits : \A q \in hits : Len(q) <= Len(r)
             ELSE IF Len(line) >= 2 /\ line[2] # COMMA /\ candidate \in roster THEN candidate
             ELSE NoPlayer

(***************************************************************************)
(* Line classifier                                                         *)
(***************************************************************************)
NON_BIP_PHRASES == {<<"hit", "by", "pitch">>, <<"hit-by-pitch">>, <<"hit", "batsman">>,
                    <<"walks">>, <<"walked">>, <<"", "base", "on", "balls">>, <<"intentional", "walk">>,
                    <<"strikes", "out">>, <<"strikeout">>, <<"called", "out", "on", "strikes">>,
                    <<"reaches", "on", "catcher", "interference">>, <<"catcher's", "interference">>,
                    <<"defensive", "indifference">>,
                    <<"picked", "off">>, <<"pickoff">>}

bip_outcomes == {<<"grounds">>, <<"grounded">>, <<"ground", "ball">>, <<"groundball">>, <<"grounder">>,
                 <<"singles">>, <<"doubles">>, <<"triples">>, <<"homers">>, <<"home", "run">>,
                 <<"lines", "out">>, <<"line", "drive">>, <<"lined", "out">>, <<"line", "out">>,
                 <<"flies", "out">>, <<"fly", "ball">>, <<"flied", "out">>, <<"fly", "out">>,
                 <<"pops", "out">>, <<"pop", "up">>, <<"pop-out">>, <<"popup">>,
                 <<"bloops">>, <<"blooper">>,
                 <<"bunts">>, <<"bunt">>, <<"sacrifice", "bunt">>, <<"sac", "bunt">>, <<"sacrifice", "hit">>,
                 <<"sac", "fly">>, <<"sacrifice", "fly">>,
                 <<"reaches", "on", "a", "fielding", "error">>, <<"reaches", "on", "a", "throwing", "error">>,
                 <<"reaches", "on", "error">>, <<"reached", "on", "error">>, <<"safe", "on", "error">>,
                 <<"reaches", "on", "a", "missed", "catch", "error">>,
                 <<"fielder's", "choice">>, <<"fielders", "choice">>,
                 <<"double", "play">>, <<"triple", "play">>,
                 <<"out", "at", "first">>, <<"out", "at", "second">>, <<"out", "at", "third">>, <<"out", "at", "home">>}

fielder_markers == {<<"left", "fielder">>, <<"center", "fielder">>, <<"right", "fielder">>,
                    <<"shortstop">>, <<"second", "baseman">>, <<"third", "baseman">>, <<"first", "baseman">>,
                    <<"to", "left", "field">>, <<"to", "center", "field">>, <<"to", "right", "field">>,
                    <<"to", "shortstop">>, <<"to", "second", "baseman">>, <<"to", "third", "baseman">>,
                    <<"to", "first", "baseman">>,
                    <<"to", "pitcher">>, <<"back", "to", "the", "mound">>,
                    <<"down", "the", "left">>, <<"down", "the", "right">>, <<"left-center">>, <<"right-center">>}

is_ball_in_play(ll) ==
    IF ll = << >> THEN FALSE
    ELSE IF HasAny(ll, NON_BIP_PHRASES) THEN FALSE
    ELSE IF HasAny(ll, bip_outcomes) THEN TRUE
    ELSE HasAny(ll, fielder_markers)

GB_REGEX == {"ground", "grounds", "grounded", "groundball", "grounder", "chopper", "bouncer",
             "dribbler", "roller", "tapper", "slow-roller"}

LD_REGEX == {"line", "lines", "lined"}

FB_REGEX == {"fly", "flyball", "flies", "flied", "pop", "pops", "pop-up", "popup",
             "blooper", "flare", "floater", "lofted"}

SACFLY_REGEX == {<<"sac", "fly">>, <<"sacrifice", "fly">>}

\* a classifier that tries the ground-ball family before the line-drive family
classify_ball_type_GroundFirst(ll) ==
    IF HasPhrase(ll, <<"bunt">>) THEN None
    ELSE IF \E kw \in SACFLY_REGEX : \E i \in 1..Len(ll) : i + 1 <= Len(ll) /\ ll[i] = kw[1] /\ ll[i + 1] = kw[2]
         THEN "FB"
    ELSE IF HasWord(ll, GB_REGEX) THEN "GB"
    ELSE IF HasWord(ll, LD_REGEX) THEN "FB"
    ELSE IF HasWord(ll, FB_REGEX) THEN "FB"
    ELSE None

\* the ball type, None when no phrase decides it
classify_ball_type(ll) ==
    IF HasPhrase(ll, <<"bunt">>) THEN None
    ELSE IF \E kw \in SACFLY_REGEX : \E i \in 1..Len(ll) : i + 1 <= Len(ll) /\ ll[i] = kw[1] /\ ll[i + 1] = kw[2]
         THEN "FB"
    ELSE IF HasWord(ll, LD_REGEX) THEN "FB"
    ELSE IF HasWord(ll, GB_REGEX) THEN "GB"
    ELSE IF HasWord(ll, FB_REGEX) THEN "FB"
    ELSE None

LF_PATTERNS == {<<"left", "fielder", "">>, <<"to", "left", "fielder">>, <<"to", "left", "field">>, <<"to", "left">>,
                <<"into", "left", "field">>,
                <<"down", "the", "left", "field", "line">>, <<"down", "the", "left-field", "line">>,
                <<"down", "the", "lf", "line">>, <<"down", "the", "left", "line">>, <<"toward", "left", "field">>,
                <<"into", "shallow", "left">>, <<"into", "deep", "left">>, <<"into", "left-center">>,
                <<"into", "left", "center">>,
                <<"in", "front", "of", "left", "fielder">>}

CF_PATTERNS == {<<"center", "fielder", "">>, <<"to", "center", "fielder">>, <<"to", "center", "field">>,
                <<"to", "center">>, <<"into", "center", "field">>,
                <<"into", "deep", "center">>, <<"into", "shallow", "center">>,
                <<"into", "left-center", "field">>, <<"into", "left", "center", "field">>,
                <<"into", "right-center", "field">>, <<"into", "right", "center", "field">>,
                <<"up", "the", "middle", "into", "center">>, <<"up", "the", "middle", "to", "center">>}

RF_PATTERNS == {<<"right", "fielder", "">>, <<"to", "right", "fielder">>, <<"to", "right", "field">>, <<"to", "right">>,
                <<"into", "right", "field">>,
                <<"down", "the", "right", "field", "line">>, <<"down", "the", "right-field", "line">>,
                <<"down", "the", "rf", "line">>, <<"toward", "right", "field">>,
                <<"into", "shallow", "right">>, <<"into", "deep", "right">>,
                <<"into", "right-center">>, <<"into", "right", "center">>,
                <<"in", "front", "of", "right", "fielder">>}

SS_PATTERNS == {<<"shortstop", "">>, <<"to", "shortstop">>, <<"to", "the", "shortstop">>, <<"to", "ss">>,
                <<"fielded", "by", "the", "shortstop">>, <<"fielded", "by", "shortstop">>,
                <<"shortstop", "fields">>, <<"shortstop", "to">>, <<"shortstop", "throws", "to">>,
                <<"shortstop", "makes", "the", "play">>, <<"at", "shortstop">>}

_2B_PATTERNS == {<<"second", "baseman", "">>, <<"to", "second", "baseman">>, <<"to", "the", "second", "baseman">>,
                 <<"to", "2nd", "baseman">>,
                 <<"fielded", "by", "second", "baseman">>, <<"fielded", "by", "the", "second", "baseman">>,
                 <<"second", "baseman", "fields">>, <<"second", "baseman", "to">>,
                 <<"second", "baseman", "throws", "to">>}

_3B_PATTERNS == {<<"third", "baseman", "">>, <<"to", "third", "baseman">>, <<"to", "the", "third", "baseman">>,
                 <<"to", "3rd", "baseman">>,
                 <<"fielded", "by", "third", "baseman">>, <<"fielded", "by", "the", "third", "baseman">>,
                 <<"third", "baseman", "fields">>, <<"third", "baseman", "to">>,
                 <<"third", "baseman", "throws", "to">>}

_1B_PATTERNS == {<<"first", "baseman", "">>, <<"to", "first", "baseman">>, <<"to", "the", "first", "baseman">>,
                 <<"to", "1st", "baseman">>,
                 <<"fielded", "by", "first", "baseman">>, <<"fielded", "by", "the", "first", "baseman">>,
                 <<"first", "baseman", "fields">>, <<"first", "baseman", "to">>,
                 <<"first", "baseman", "throws", "to">>}

P_PATTERNS == {<<"to", "pitcher">>, <<"to", "the", "pitcher">>, <<"back", "to", "the", "pitcher">>,
               <<"back", "to", "pitcher">>, <<"back", "to", "the", "mound">>,
               <<"fielded", "by", "pitcher">>, <<"fielded", "by", "the", "pitcher">>,
               <<"pitcher", "fields">>, <<"pitcher", "to">>, <<"pitcher", "throws", "to">>,
               <<"back", "up", "the", "middle", "to", "the", "pitcher">>}

LEFT_SIDE_PATTERNS == {<<"through", "the", "left", "side">>, <<"up", "the", "left", "side">>,
                       <<"toward", "the", "left", "side">>,
                       <<"between", "shortstop", "and", "third", "baseman">>, <<"between", "3rd", "and", "ss">>,
                       <<"between", "ss", "and", "3b">>, <<"between", "short", "and", "third">>}

RIGHT_SIDE_PATTERNS == {<<"through", "the", "right", "side">>, <<"up", "the", "right", "side">>,
                        <<"toward", "the", "right", "side">>,
                        <<"between", "first", "baseman", "and", "second", "baseman">>,
                        <<"between", "1st", "and", "2nd">>,
                        <<"between", "second", "and", "first">>}

\* the order in which add_candidates is called
CandidateOrder == <<"LF", "CF", "RF", "SS", "3B", "2B", "1B", "P">>

PatternsOf(code) ==
    CASE code = "LF" -> LF_PATTERNS [] code = "CF" -> CF_PATTERNS [] code = "RF" -> RF_PATTERNS
      [] code = "SS" -> SS_PATTERNS [] code = "3B" -> _3B_PATTERNS [] code = "2B" -> _2B_PATTERNS
      [] code = "1B" -> _1B_PATTERNS [] code = "P" -> P_PATTERNS

\* str.find as an offset: the word the match starts in, and whether it
\* starts at the first character of that word (0) or inside it (1)
FindOffsets(ll, kw) ==
    {2 * i + (IF StartsWith(ll[i], kw[1]) THEN 0 ELSE 1) : i \in {j \in 1..Len(ll) : MatchAt(ll, kw, j)}}

SetMin(S) == CHOOSE x \in S : \A y \in S : x <= y

classify_location(ll, strict_mode) ==
    IF HasPhrase(ll, <<"sacrifice", "bunt">>) \/ HasPhrase(ll, <<"sac", "bunt">>) \/ HasPhrase(ll, <<"sacrifice", "hit">>)
    THEN None
    ELSE IF HasPhrase(ll, <<"bunt">>) THEN None
    ELSE LET candidates ==
                 {<<SetMin(FindOffsets(ll, cp[2])), cp[1]>> :
                      cp \in {x \in UNION {{<<c, kw>> : kw \in PatternsOf(CandidateOrder[c])} : c \in 1..Len(CandidateOrder)} :
                                  HasPhrase(ll, x[2])}}
             best == CHOOSE x \in candidates :
                         \A y \in candidates : x[1] < y[1] \/ (x[1] = y[1] /\ x[2] <= y[2])
         IN  IF candidates # {} THEN CandidateOrder[best[2]]
             ELSE IF strict_mode THEN None
             ELSE IF HasAny(ll, LEFT_SIDE_PATTERNS) THEN "SS"
             ELSE IF HasAny(ll, RIGHT_SIDE_PATTERNS) THEN "2B"
             ELSE None

(***************************************************************************)
(* Running-event parser                                                    *)
(***************************************************************************)
SB_VERBS == {"steal", "steals", "stole"}

BASE_WORDS == {"2nd", "second", "3rd", "third"}

\* index of the first word of the first match of SB_ACTION_REGEX, 0 if none
SB_ACTION_REGEX(line) ==
    LET ll == LowerLine(line)
        hits == {i \in 1..(Len(ll) - 1) : ll[i] \in SB_VERBS /\ ll[i + 1] \in BASE_WORDS}
    IN  IF hits = {} THEN 0 ELSE SetMin(hits)

\* the same for CS_ACTION_REGEX: (caught|out) stealing <base>
CS_ACTION_REGEX(line) ==
    LET ll == LowerLine(line)
        hits == {i \in 1..(Len(ll) - 2) : ll[i] \in {"caught", "out"} /\ ll[i + 1] = "stealing" /\ ll[i + 2] \in BASE_WORDS}
    IN  IF hits = {} THEN 0 ELSE SetMin(hits)

normalize_base_bucket(prefix, base_raw) ==
    IF Lower(base_raw) \in {"2nd", "second"} THEN prefix \o "-2B"
    ELSE IF Lower(base_raw) \in {"3rd", "third"} THEN prefix \o "-3B"
    ELSE prefix

\* rn, lower-cased, is the end of the chunk, lower-cased
IsSuffixName(rn, chunk) ==
    LET n == Len(rn)
        c == LowerLine(chunk)
        r == LowerLine(rn)
        off == Len(chunk) - n
    IN  /\ n >= 1
        /\ n <= Len(chunk)
        /\ EndsWith(c[off + 1], r[1])
        /\ \A j \in 2..n : c[off + j] = r[j]

\* left.split(",")[-1]: the words after the last comma
RECURSIVE AfterLastComma(_)
AfterLastComma(l) ==
    IF l = << >> \/ l[Len(l)] = COMMA THEN << >>
    ELSE Append(AfterLastComma(SubSeq(l, 1, Len(l) - 1)), l[Len(l)])

\* idx is the index of the first word of the steal phrase
extract_runner_before_index(line, idx, roster) ==
    LET chunk == AfterLastComma(SubSeq(line, 1, idx - 1))
        hits == {rn \in roster : IsSuffixName(rn, chunk)}
        cand == <<chunk[Len(chunk) - 1], chunk[Len(chunk)]>>
    IN  IF chunk = << >> THEN NoPlayer
        ELSE IF hits # {} THEN CHOOSE rn \in hits : \A q \in hits : Len(q) <= Len(rn)
        ELSE IF Len(chunk) >= 2 /\ cand \in roster THEN cand
        ELSE NoPlayer

\* the retry on the content of a parenthesis is left out: no line of the
\* vocabulary has one
extract_runner_name_fallback(clean_line, roster) == get_batter_name(clean_line, roster)

NoEvent == [runner |-> NoPlayer, total_key |-> "", base_key |-> ""]

RunnerOf(line, idx, roster) ==
    LET r1 == extract_runner_before_index(line, idx, roster)
    IN  IF r1 # NoPlayer THEN r1 ELSE extract_runner_name_fallback(line, roster)

\* the event of a matched steal phrase: nothing without a runner
RunningEvent(runner, total_key, base_key) ==
    IF runner # NoPlayer
    THEN [runner |-> runner, total_key |-> total_key, base_key |-> base_key]
    ELSE NoEvent

parse_running_event(clean_line, roster) ==
    LET sb == SB_ACTION_REGEX(clean_line)
        cs == CS_ACTION_REGEX(clean_line)
    IN  IF clean_line = << >> THEN NoEvent
        ELSE IF sb # 0 THEN
            RunningEvent(RunnerOf(clean_line, sb, roster), "SB", normalize_base_bucket("SB", clean_line[sb + 1]))
        ELSE IF cs # 0 THEN
            RunningEvent(RunnerOf(clean_line, cs, roster), "CS", normalize_base_bucket("CS", clean_line[cs + 2]))
        ELSE NoEvent

(***************************************************************************)
(* Game aggregator: the loop of the Process Game handler.                  *)
(* A loop state holds game_team, game_players, gp_in_game, running_seen,   *)
(* current_batter_ctx, and err: an exception left the loop.                *)
(***************************************************************************)
NewGame(roster) ==
    [team |-> empty_stat_dict,
     players |-> [p \in roster |-> empty_stat_dict],
     gp |-> {},
     seen |-> {},
     ctx |-> NoPlayer,
     err |-> FALSE]

\* the lines the loop runs over: stripped, blank lines dropped
SplitLines(raw_text) == SelectSeq([i \in 1..Len(raw_text) |-> Strip(raw_text[i])], LAMBDA l : l # << >>)

CleanLine(line) == Collapse(Strip(line))

\* " P " in uline: the words of the name, in capitals, are words of the line
NamedIn(p, clean_line) ==
    \E i \in 1..Len(clean_line) :
        /\ i + Len(p) - 1 <= Len(clean_line)
        /\ \A j \in 1..Len(p) : Lower(clean_line[i + j - 1]) = Lower(p[j])

IsHeader(ll) == Len(ll) >= 2 /\ ll[1] \in {"top", "bottom"} /\ ll[2] # COMMA

IsCourtesy(ll) == HasPhrase(ll, <<"courtesy", "runner">>) \/ HasWord(ll, {"cr"})

IsLineupLine(ll) == HasPhrase(ll, <<"lineup", "changed">>) \/ HasPhrase(ll, <<"defensive">>) \/ HasPhrase(ll, <<"", "in", "for", "">>)

\* a bunts bucket without the sacrifice hit
IsBuntLine_BuntOnly(ll) == HasPhrase(ll, <<"bunt">>)

IsBuntLine(ll) == HasPhrase(ll, <<"bunt">>) \/ HasPhrase(ll, <<"sacrifice", "hit">>)

\* the batter a line is credited to: its leading name, else the last "at bat"
BatterOf(bn, ctx) == IF bn # NoPlayer THEN bn ELSE ctx

\* the location a line without location phrase is counted under
UnknownLoc(strict_mode) == IF strict_mode THEN None ELSE "UNKNOWN"

\* no inference of the type from the location
InferType_Never(ball_type, loc) == ball_type

InferType(ball_type, loc) ==
    IF ball_type # None THEN ball_type
    ELSE IF loc \in {"SS", "3B", "2B", "1B", "P"} THEN "GB"
    ELSE IF loc \in {"LF", "CF", "RF"} THEN "FB"
    ELSE None

\* increments on the team only
Bump_TeamOnly(g, who, ks) ==
    [g EXCEPT !.team = [k \in DOMAIN @ |-> IF k \in ks THEN @[k] + 1 ELSE @[k]]]

\* d[k] += 1 for every k of ks, on the team and on one player
Bump(g, who, ks) ==
    [g EXCEPT !.team = [k \in DOMAIN @ |-> IF k \in ks THEN @[k] + 1 ELSE @[k]],
              !.players[who] = [k \in DOMAIN @ |-> IF k \in ks THEN @[k] + 1 ELSE @[k]]]

\* a recording that leaves the combination counter out
BipKeys_NoCombo(loc, ball_type) ==
    {loc} \cup (IF ball_type \in SeqToSet(BALLTYPE_KEYS) THEN {ball_type} ELSE {})

\* the keys a ball in play with this location and type increments; a key
\* that is missing from the record raises KeyError
BipKeys(loc, ball_type) ==
    {loc}
    \cup (IF ball_type \in SeqToSet(BALLTYPE_KEYS) THEN {ball_type} ELSE {})
    \cup (IF ball_type \in {"GB", "FB"} /\ loc \in COMBO_LOCS THEN {ComboKey(ball_type, loc)} ELSE {})

\* the event ev of the line is counted once per runner, key and line
RecordRunning(g, ev, ll) ==
    LET dedupe_key == <<ev.runner, ev.total_key, ev.base_key, ll>>
        ks == {ev.total_key} \cup (IF ev.base_key \in RUN_KEYS THEN {ev.base_key} ELSE {})
    IN  IF ev.runner = NoPlayer \/ dedupe_key \in g.seen THEN g
        ELSE IF ev.runner \notin DOMAIN g.players THEN [g EXCEPT !.err = TRUE]
        ELSE [Bump(g, ev.runner, ks) EXCEPT !.seen = @ \cup {dedupe_key}]

RunningStage(g, clean_line, ll, roster) == RecordRunning(g, parse_running_event(clean_line, roster), ll)

\* the location of a line that classify_location gave loc0
LocOrUnknown(loc0, strict_mode) == IF loc0 = None THEN UnknownLoc(strict_mode) ELSE loc0

\* the increments of a ball in play with location loc and classified type
RecordBip(g, batter, loc, ball_type) ==
    IF loc = None THEN g
    ELSE IF loc \notin DOMAIN g.team \/ batter \notin DOMAIN g.players THEN [g EXCEPT !.err = TRUE]
    ELSE Bump(g, batter, BipKeys(loc, InferType(ball_type, loc)))

BipStage(g, ll, batter, strict_mode) ==
    IF ~is_ball_in_play(ll) THEN g
    ELSE IF IsBuntLine(ll) THEN
        IF batter \in DOMAIN g.players THEN Bump(g, batter, {BUNTS_KEY}) ELSE [g EXCEPT !.err = TRUE]
    ELSE RecordBip(g, batter, LocOrUnknown(classify_location(ll, strict_mode), strict_mode),
                   classify_ball_type(ll))

\* an "at bat" line of a roster player sets the batter context
MarkAtBat(g, ll, bn) ==
    IF ~IsCourtesy(ll) /\ HasPhrase(ll, <<"", "at", "bat">>) /\ bn # NoPlayer
    THEN [g EXCEPT !.gp = @ \cup {bn}, !.ctx = bn]
    ELSE g

\* a lineup line credits a game played to the roster players it names
MarkLineup(g, clean_line, ll, roster) ==
    IF ~IsCourtesy(ll) /\ IsLineupLine(ll)
    THEN [g EXCEPT !.gp = @ \cup {p \in roster : NamedIn(p, clean_line)}]
    ELSE g

\* the loop body from the resolved batter on
BatterStage(g, ll, batter, strict_mode) ==
    IF g.err \/ batter = NoPlayer THEN g
    ELSE BipStage([g EXCEPT !.gp = @ \cup {batter}], ll, batter, strict_mode)

\* the loop body after the running events
AfterRunning(g, ll, bn, strict_mode) == BatterStage(g, ll, BatterOf(bn, g.ctx), strict_mode)

\* the loop body over a cleaned line, its lower case and its leading name
LineBody(g, clean_line, ll, bn, roster, strict_mode) ==
    IF g.err \/ clean_line = << >> THEN g
    ELSE IF IsHeader(ll) THEN [g EXCEPT !.ctx = NoPlayer]
    ELSE AfterRunning(RunningStage(MarkLineup(MarkAtBat(g, ll, bn), clean_line, ll, roster), clean_line, ll, roster),
                      ll, bn, strict_mode)

LineWords(g, clean_line, roster, strict_mode) ==
    LineBody(g, clean_line, LowerLine(clean_line), get_batter_name(clean_line, roster), roster, strict_mode)

\* one pass of the loop body over a line of SplitLines
LineStep(g, line, roster, strict_mode) == LineWords(g, CleanLine(line), roster, strict_mode)

RECURSIVE RunLines(_, _, _, _)
RunLines(g, lines, roster, strict_mode) ==
    IF lines = << >> THEN g
    ELSE RunLines(LineStep(g, Head(lines), roster, strict_mode), Tail(lines), roster, strict_mode)

\* GP finalization
FinalizeGP(g) ==
    [g EXCEPT !.players = [p \in DOMAIN @ |-> IF p \in g.gp THEN [@[p] EXCEPT ![GP_KEY] = @ + 1] ELSE @[p]]]

\* the game record of a transcript, err set when the loop raised
EndGame(g) == IF g.err THEN g ELSE FinalizeGP(g)

AggregateGame(raw_text, roster, strict_mode) ==
    EndGame(RunLines(NewGame(roster), SplitLines(raw_text), roster, strict_mode))

KEYS == SeqToSet(LOCATION_KEYS) \cup SeqToSet(BALLTYPE_KEYS) \cup COMBO_KEYS \cup RUN_KEYS \cup {GP_KEY, BUNTS_KEY}

Get(d, k) == IF k \in DOMAIN d THEN d[k] ELSE 0

\* a merge that keeps the players of the game only
add_game_to_season_GameOnly(season_team, season_players, game_team, game_players) ==
    <<[k \in DOMAIN season_team \cup KEYS |->
          IF k \in KEYS THEN Get(season_team, k) + Get(game_team, k) ELSE season_team[k]],
      [p \in DOMAIN game_players |->
          [k \in KEYS |-> (IF p \in DOMAIN season_players THEN Get(season_players[p], k) ELSE 0)
                              + Get(game_players[p], k)]]>>

\* returns <<season_team, season_players>>
add_game_to_season(season_team, season_players, game_team, game_players) ==
    LET team == [k \in DOMAIN season_team \cup KEYS |->
                    IF k \in KEYS THEN Get(season_team, k) + Get(game_team, k) ELSE season_team[k]]
        base == [p \in DOMAIN season_players \cup DOMAIN game_players |->
                    IF p \in DOMAIN season_players THEN season_players[p] ELSE empty_stat_dict]
        players == [p \in DOMAIN base |->
                       IF p \in DOMAIN game_players
                       THEN [k \in DOMAIN base[p] \cup KEYS |->
                                IF k \in KEYS THEN Get(base[p], k) + Get(game_players[p], k) ELSE base[p][k]]
                       ELSE base[p]]
    IN  <<team, players>>

(***************************************************************************)
(* Storage.  A row of season_totals is NoRow or a record of the payload    *)
(* (team, players, meta) and games_played; meta is a dict that may lack    *)
(* either of its keys.  processed_games is a set of <<team_key, game_hash>>*)
(* rows under a unique index.  A game hash is modelled by what is hashed.  *)
(***************************************************************************)
NoRow == [absent |-> TRUE]

NoMeta == [k \in {} |-> {}]

normalize_pbp(text) == SelectSeq([i \in 1..Len(text) |-> Strip(text[i])], LAMBDA l : l # << >>)

game_key_from_pbp(team_key, pbp_text) == <<team_key, normalize_pbp(pbp_text)>>

\* the values db_load_season_totals returns
db_load_season_totals(totals, processed, team_key, current_roster) ==
    LET row == totals[team_key]
        raw_players == row.data.players
        raw_meta == row.data.meta
        loaded == [p \in DOMAIN raw_players |-> ensure_all_keys(raw_players[p])]
    IN  [season_team |-> IF row = NoRow THEN empty_stat_dict ELSE ensure_all_keys(row.data.team),
         season_players |->
             IF row = NoRow THEN [p \in current_roster |-> empty_stat_dict]
             ELSE [p \in DOMAIN loaded \cup current_roster |->
                      IF p \in DOMAIN loaded THEN loaded[p] ELSE empty_stat_dict],
         games_played |-> IF row = NoRow THEN 0 ELSE row.games_played,
         processed_set |-> {r[2] : r \in {x \in processed : x[1] = team_key}},
         archived_players |->
             IF row # NoRow /\ "archived_players" \in DOMAIN raw_meta THEN raw_meta["archived_players"] ELSE {}]

\* the meta db_save_season_totals writes: the stored meta with the archived
\* list replaced, and the notes replaced when notes are given
SavedMeta(existing_meta, archived_players, coach_notes) ==
    [k \in DOMAIN existing_meta \cup {"archived_players"} \cup (IF coach_notes # None THEN {"coach_notes"} ELSE {}) |->
        IF k = "archived_players" THEN archived_players
        ELSE IF k = "coach_notes" /\ coach_notes # None THEN coach_notes
        ELSE existing_meta[k]]

\* the meta db_save_season_totals starts from: the stored one, or none when
\* the select of it raised
ExistingMeta(totals, team_key, select_ok) ==
    IF ~select_ok \/ totals[team_key] = NoRow THEN NoMeta ELSE totals[team_key].data.meta

\* the table season_totals after the upsert of db_save_season_totals
db_save_season_totals(totals, team_key, season_team, season_players, games_played, archived_players, coach_notes, select_ok) ==
    LET existing_meta == ExistingMeta(totals, team_key, select_ok)
    IN  [totals EXCEPT ![team_key] =
            [data |-> [team |-> season_team,
                       players |-> season_players,
                       meta |-> SavedMeta(existing_meta, archived_players, coach_notes)],
             games_played |-> games_played]]

(***************************************************************************)
(* Inputs                                                                  *)
(***************************************************************************)
JS == <<"J", "Smith">>

BJ == <<"B", "Jones">>

TS == <<"T", "Smith">>

L_GroundSS == <<"J", "Smith", "grounds", "out", "to", "shortstop">>

L_Single == <<"J", "Smith", "singles">>

L_SingleLF == <<"J", "Smith", "singles", "to", "left", "field">>

L_AtBat == <<"J", "Smith", "at", "bat">>

L_JonesFly == <<"B", "Jones", "flies", "out", "to", "center", "field">>

L_Bunt == <<"J", "Smith", "bunts">>

L_Steal == <<"J", "Smith", "steals", "2nd">>

L_Walk == <<"J", "Smith", "walks">>

L_Header == <<"Top", "1st">>

L_Blank == <<WS>>

L_JonesSteal == <<"B", "Jones", "steals", "2nd">>

L_WalkSteal == <<"J", "Smith", "walks", COMMA, "B", "Jones", "steals", "2nd">>

L_Caught == <<"J", "Smith", "caught", "stealing", "3rd">>

L_CaughtSS == <<"J", "Smith", "out", "stealing", "2nd", COMMA, "catcher", "to", "shortstop">>

L_CourtesyLead == <<"Courtesy", "runner", "J", "Smith", "in", "for", "B", "Jones">>

L_CourtesyTail == <<"J", "Smith", "in", "as", "courtesy", "runner", "for", "B", "Jones">>

L_Fielder == <<"J", "Jones", "flies", "out", "to", "center", "fielder", "B", "Smith">>

L_LastName == <<"Smith", "grounds", "out", "to", "shortstop">>

\* the transcripts a coach pastes; the first MaxTranscripts of them are used
Catalogue == << <<L_GroundSS, L_JonesFly>>,
                <<L_AtBat, L_Single, L_JonesFly>>,
                <<L_Bunt, L_Steal>>,
                <<L_SingleLF, L_Walk>> >>

MaxTranscripts == 2

\* what the text area may hold: nothing, white space only, or a transcript
RawTexts == {<< >>, <<L_Blank>>} \cup {Catalogue[i] : i \in 1..MaxTranscripts}

Rosters == {{}, {JS}, {JS, BJ}}

\* transcripts with every family of keys: location, type, combination, bunt, steal, caught stealing
KeyTexts == {<<L_GroundSS, L_JonesFly>>, <<L_Bunt, L_Steal>>, <<L_JonesSteal, L_Caught>>}

\* a transcript, and what a coach may paste for it a second time: with a
\* blank line and blanks around a line, with a run of blanks inside a line
T_Plain == <<L_GroundSS, L_JonesFly>>

T_Padded == <<<<WS, "J", "Smith", "grounds", "out", "to", "shortstop", WS>>, L_Blank, L_JonesFly>>

T_Spaced == <<<<"J", "Smith", WS, "grounds", "out", "to", "shortstop">>, L_JonesFly>>

T_Other == <<L_Bunt, L_Steal>>

TeamTexts == {T_Plain, T_Padded, T_Spaced, T_Other}

Teams == {"t1"}

Sessions == {"s1"}

NoteTexts == {"", "n1"}

\* the lines of the transcripts of one game, at most MaxLines of them
LineSet == {L_GroundSS, L_Single, L_SingleLF, L_AtBat, L_JonesFly, L_Bunt, L_Steal, L_Walk, L_Header, L_Blank,
            L_JonesSteal, L_WalkSteal, L_Caught, L_CaughtSS, L_CourtesyLead, L_CourtesyTail, L_Fielder, L_LastName}

\* the rosters of one game: not empty, one with two players of one last name
GameRosters == (Rosters \ {{}}) \cup {{JS, TS}}

MaxLines == 2

GameTexts == UNION {[1..n -> LineSet] : n \in 0..MaxLines}

\* lines of bunts, beside batted balls with a location
L_SacHit == <<"J", "Smith", "sacrifice", "hit", "to", "pitcher">>

L_SacBunt == <<"B", "Jones", "sacrifice", "bunt", "to", "third", "baseman">>

L_BuntSteal == <<"J", "Smith", "bunts", COMMA, "B", "Jones", "steals", "2nd">>

BuntLineSet == {L_Bunt, L_SacHit, L_SacBunt, L_BuntSteal, L_GroundSS, L_JonesFly, L_AtBat}

BuntTexts == UNION {[1..n -> BuntLineSet] : n \in 0..MaxLines}

(***************************************************************************)
(* Pitching attribution state machine.  A line of the pass is one of: a    *)
(* half-inning header with the team at bat, a line naming a pitcher, an    *)
(* outs marker with the outs count of the half-inning, a strikeout detail. *)
(***************************************************************************)
UnknownPitcher == "unknown pitcher"

Pitchers == {"P1", "P2"}

\* the configured team and the opponent
TeamName == "Us"

TeamNames == {"Us", "Them"}

\* the terminal out count of a half-inning
OutsPerHalfInning == 3

\* the lines of one pass, at most
MaxPitchLines == 6

EmptyBuffer == [outs |-> 0, strikeouts |-> 0]

NewPitchingState ==
    [fielding_ours |-> FALSE, active |-> UnknownPitcher, pending |-> EmptyBuffer,
     last_outs |-> 0, records |-> [q \in {} |-> EmptyBuffer]]

\* the pitching records with the buffer buf added to the record of pitcher
CreditPitcher(records, pitcher, buf) ==
    [q \in DOMAIN records \cup {pitcher} |->
        IF q = pitcher
        THEN [outs |-> (IF q \in DOMAIN records THEN records[q].outs ELSE 0) + buf.outs,
              strikeouts |-> (IF q \in DOMAIN records THEN records[q].strikeouts ELSE 0) + buf.strikeouts]
        ELSE records[q]]

\* a header that keeps the pitcher of the half-inning before
HalfInningHeader_KeepPitcher(st, batting_team) ==
    [st EXCEPT !.fielding_ours = (batting_team # TeamName),
               !.pending = EmptyBuffer,
               !.last_outs = 0]

\* a half-inning header: the pending buffer and the active pitcher are reset
HalfInningHeader(st, batting_team) ==
    [st EXCEPT !.fielding_ours = (batting_team # TeamName),
               !.active = UnknownPitcher,
               !.pending = EmptyBuffer,
               !.last_outs = 0]

\* a line naming a pitcher: the pending buffer goes into the pitcher's record
PitcherNamed(st, name) ==
    [st EXCEPT !.active = name,
               !.records = CreditPitcher(st.records, name, st.pending),
               !.pending = EmptyBuffer]

\* known pitcher: into the record; unknown: into the pending buffer
RouteToPitcher(st, buf) ==
    IF ~st.fielding_ours THEN st
    ELSE IF st.active # UnknownPitcher
    THEN [st EXCEPT !.records = CreditPitcher(st.records, st.active, buf)]
    ELSE [st EXCEPT !.pending = [outs |-> st.pending.outs + buf.outs,
                                 strikeouts |-> st.pending.strikeouts + buf.strikeouts]]

\* the terminal out count with the pitcher unknown: the buffer goes to the sentinel
TerminalFlush(st) ==
    IF st.last_outs = OutsPerHalfInning /\ st.active = UnknownPitcher /\ st.fielding_ours
    THEN [st EXCEPT !.records = CreditPitcher(st.records, UnknownPitcher, st.pending),
                    !.pending = EmptyBuffer]
    ELSE st

\* an outs marker: the delta to the last outs count seen in the half-inning
OutsMarker(st, outs) ==
    TerminalFlush(RouteToPitcher([st EXCEPT !.last_outs = outs],
                                 [outs |-> outs - st.last_outs, strikeouts |-> 0]))

StrikeoutDetail(st) == RouteToPitcher(st, [outs |-> 0, strikeouts |-> 1])

(***************************************************************************)
(* The processing lock of a session.  processing_started_at is kept as the *)
(* seconds since it, counted up to LockAgeCap; a released lock has         *)
(* processing_started_at = 0.0, which is further back than any count.      *)
(***************************************************************************)
FAILSAFE_SECONDS == 15

LockAgeCap == 16

\* a failsafe that never unlocks
FailsafeUnlock_Never(locked, age) == locked

\* the lock after the failsafe at the start of a script run
FailsafeUnlock(locked, age) == locked /\ ~(age > FAILSAFE_SECONDS)

\* c_type before classify_ball_type ran
Unclassified == "unclassified"

(***************************************************************************)
(* State                                                                   *)
(***************************************************************************)
VARIABLES
    db_totals,        \* table season_totals: team_key -> row or NoRow
    db_processed,     \* table processed_games: set of <<team_key, game_hash>>
    db_rosters,       \* table team_rosters: team_key -> the roster its text holds
    processing_game,  \* st.session_state.processing_game of every session
    lock_age,         \* time.time() - st.session_state.processing_started_at of every session, in seconds up to LockAgeCap
    pc,               \* where the script run of a session is
    run,              \* the widgets and the locals of the run of a session
    result,           \* the message the last run of a session showed
    h_merged,         \* history: <<team_key, game_hash>> -> times its game record was added to the stored totals
    h_unarchived,     \* history: the players the last Save Roster took out of the archived set
    h_reset,          \* history: the ledger entries the last Reset Season deleted
    a_text,           \* one game: the transcript
    a_roster,         \* one game: current_roster
    a_strict,         \* one game: strict_mode
    a_i,              \* one game: number of lines the loop has run over
    a_g,              \* one game: the loop state
    a_bip,            \* one game, history: lines that reached the ball-in-play recording
    a_pc,             \* one game: "off", "loop", "done"
    p_pc,             \* pitching pass: "off", "pass"
    p_st,             \* pitching pass: the state of the attribution state machine
    p_half,           \* pitching pass: number of half-inning headers read
    p_n,              \* pitching pass: number of lines read
    h_credited,       \* pitching pass, history: <<pitcher, half-inning>> -> outs of that half-inning in the pitcher's record
    h_named,          \* pitching pass, history: <<pitcher, half-inning>> of every line naming a pitcher
    h_pending,        \* pitching pass, history: half-inning -> outs of it in the pending buffer
    h_buffered,       \* pitching pass, history: <<pitcher, half-inning>> that got outs out of the pending buffer
    c_line,           \* one classification: the lower-case line
    c_type            \* one classification: Unclassified, or what classify_ball_type returned

db == <<db_totals, db_processed, db_rosters>>

hist == <<h_merged, h_unarchived, h_reset>>

pitching == <<p_pc, p_st, p_half, p_n, h_credited, h_named, h_pending, h_buffered>>

classification == <<c_line, c_type>>

game == <<a_text, a_roster, a_strict, a_i, a_g, a_bip, a_pc, pitching, classification>>

lock == <<processing_game, lock_age>>

season == <<db, lock, pc, run, result, hist>>

vars == <<season, game>>

NoRun == [op |-> "none"]

EmptyBag == [x \in {} |-> 0]

InitSeason ==
    /\ db_totals = [t \in Teams |-> NoRow]
    /\ db_processed = {}
    /\ db_rosters = [t \in Teams |-> {}]
    /\ processing_game = [s \in Sessions |-> FALSE]
    /\ lock_age = [s \in Sessions |-> LockAgeCap]
    /\ pc = [s \in Sessions |-> "idle"]
    /\ run = [s \in Sessions |-> NoRun]
    /\ result = [s \in Sessions |-> "none"]
    /\ h_merged = EmptyBag
    /\ h_unarchived = {}
    /\ h_reset = {}

PitchingOff ==
    /\ p_pc = "off"
    /\ p_st = NewPitchingState
    /\ p_half = 0
    /\ p_n = 0
    /\ h_credited = EmptyBag
    /\ h_named = {}
    /\ h_pending = EmptyBag
    /\ h_buffered = {}

ClassificationOff ==
    /\ c_line = << >>
    /\ c_type = Unclassified

GameOff ==
    /\ PitchingOff
    /\ ClassificationOff
    /\ a_text = << >>
    /\ a_roster = {}
    /\ a_strict = FALSE
    /\ a_i = 0
    /\ a_g = NewGame({})
    /\ a_bip = 0
    /\ a_pc = "off"

Init == InitSeason /\ GameOff

AllIdle == \A s \in Sessions : pc[s] = "idle"

(***************************************************************************)
(* A click starts a script run: the widgets hold the inputs, and the run   *)
(* loads the season of the selected team with the roster of the text area. *)
(* The handlers of this specification run one at a time.                   *)
(***************************************************************************)
StartRun(s, op, team_key, raw_text, current_roster, strict_mode, notes) ==
    /\ pc[s] = "idle"
    /\ pc' = [pc EXCEPT ![s] = "clicked"]
    /\ run' = [run EXCEPT ![s] =
                  [op |-> op, team_key |-> team_key, raw_text |-> raw_text,
                   current_roster |-> current_roster, strict_mode |-> strict_mode, notes |-> notes,
                   ld |-> IF op = "roster" THEN NoRow
                          ELSE db_load_season_totals(db_totals, db_processed, team_key, current_roster)]]
    /\ result' = [result EXCEPT ![s] = "none"]
    /\ h_unarchived' = {}
    /\ h_reset' = {}
    /\ processing_game' = [processing_game EXCEPT ![s] = FailsafeUnlock(processing_game[s], lock_age[s])]
    /\ lock_age' = [lock_age EXCEPT ![s] = IF processing_game'[s] THEN @ ELSE LockAgeCap]
    /\ UNCHANGED <<db, h_merged, game>>

Click(s, op, team_key, raw_text, current_roster, strict_mode, notes) ==
    /\ AllIdle
    /\ StartRun(s, op, team_key, raw_text, current_roster, strict_mode, notes)

ClickProcess(s) ==
    \E t \in Teams, raw \in RawTexts, r \in Rosters, strict \in BOOLEAN :
        Click(s, "process", t, raw, r, strict, None)

\* Save Roster runs before the load of the script, and loads by itself
ClickSaveRoster(s) == \E t \in Teams, r \in Rosters : Click(s, "roster", t, << >>, r, FALSE, None)

ClickSaveNotes(s) == \E t \in Teams, r \in Rosters, n \in NoteTexts : Click(s, "notes", t, << >>, r, FALSE, n)

ClickReset(s) == \E t \in Teams, r \in Rosters : Click(s, "reset", t, << >>, r, FALSE, None)

Finish(s, msg) ==
    /\ pc' = [pc EXCEPT ![s] = "idle"]
    /\ run' = [run EXCEPT ![s] = NoRun]
    /\ result' = [result EXCEPT ![s] = msg]

(***************************************************************************)
(* Save Roster                                                             *)
(***************************************************************************)
\* Save Roster that archives nobody
ArchiveOnSave_NoArchive(season_players, archived_players, new_roster) ==
    {p \in archived_players : p \notin new_roster}

\* Save Roster that unarchives nobody
ArchiveOnSave_NoUnarchive(season_players, archived_players, new_roster) ==
    archived_players \cup (DOMAIN season_players \ new_roster)

\* the archived set Save Roster saves
ArchiveOnSave(season_players, archived_players, new_roster) ==
    LET removed == DOMAIN season_players \ new_roster
    IN  {p \in archived_players \cup removed : p \notin new_roster}

SaveRoster(s) ==
    /\ pc[s] = "clicked" /\ run[s].op = "roster"
    /\ \E upsert_ok \in BOOLEAN, save_ok \in BOOLEAN, select_ok \in BOOLEAN :
        LET team_key == run[s].team_key
            new_roster == run[s].current_roster
            ld == db_load_season_totals(db_totals, db_processed, team_key, new_roster)
            archived_players == ArchiveOnSave(ld.season_players, ld.archived_players, new_roster)
        IN  IF ~upsert_ok
            THEN /\ Finish(s, "db_error")
                 /\ UNCHANGED <<db, h_unarchived>>
            ELSE /\ db_rosters' = [db_rosters EXCEPT ![team_key] = new_roster]
                 /\ db_totals' = IF save_ok
                                 THEN db_save_season_totals(db_totals, team_key, ld.season_team, ld.season_players,
                                                            ld.games_played, archived_players, None, select_ok)
                                 ELSE db_totals
                 /\ h_unarchived' = IF save_ok THEN ld.archived_players \ archived_players ELSE h_unarchived
                 /\ Finish(s, IF save_ok THEN "roster_saved" ELSE "db_error")
                 /\ UNCHANGED db_processed
    /\ UNCHANGED <<lock, h_merged, h_reset, game>>

(***************************************************************************)
(* Save Notes                                                              *)
(***************************************************************************)
SaveNotes(s) ==
    /\ pc[s] = "clicked" /\ run[s].op = "notes"
    /\ \E save_ok \in BOOLEAN, select_ok \in BOOLEAN :
        LET team_key == run[s].team_key
            ld == run[s].ld
        IN  /\ db_totals' = IF save_ok
                            THEN db_save_season_totals(db_totals, team_key, ld.season_team, ld.season_players,
                                                       ld.games_played, ld.archived_players, run[s].notes, select_ok)
                            ELSE db_totals
            /\ Finish(s, IF save_ok THEN "notes_saved" ELSE "db_error")
    /\ UNCHANGED <<db_processed, db_rosters, lock, hist, game>>

(***************************************************************************)
(* Reset Season: two deletes, either of which may fail                     *)
(***************************************************************************)
\* deleted: how many of the two deletes went through
\* a reset that deletes the row of the totals and leaves the ledger
db_reset_season_TotalsOnly(team_key, deleted) ==
    /\ db_totals' = IF deleted >= 1 THEN [db_totals EXCEPT ![team_key] = NoRow] ELSE db_totals
    /\ db_processed' = db_processed

db_reset_season(team_key, deleted) ==
    /\ db_totals' = IF deleted >= 1 THEN [db_totals EXCEPT ![team_key] = NoRow] ELSE db_totals
    /\ db_processed' = IF deleted >= 2 THEN {x \in db_processed : x[1] # team_key} ELSE db_processed

ResetSeason(s) ==
    /\ pc[s] = "clicked" /\ run[s].op = "reset"
    /\ \E deleted \in 0..2 :
        /\ db_reset_season(run[s].team_key, deleted)
        /\ h_merged' = IF deleted >= 1
                       THEN [x \in {y \in DOMAIN h_merged : y[1] # run[s].team_key} |-> h_merged[x]]
                       ELSE h_merged
        /\ h_reset' = IF deleted >= 2 THEN {x \in db_processed : x[1] = run[s].team_key} ELSE {}
        /\ Finish(s, IF deleted = 2 THEN "reset" ELSE "db_error")
    /\ UNCHANGED <<db_rosters, lock, h_unarchived, game>>

(***************************************************************************)
(* Process Game.  st.stop() raises a BaseException: the finally block      *)
(* runs, the except Exception block does not.                              *)
(***************************************************************************)
\* a precondition check without the roster check
PreconditionFailure_NoRosterCheck(raw_text, current_roster) ==
    IF \A i \in 1..Len(raw_text) : Strip(raw_text[i]) = << >> THEN "declined_text" ELSE None

\* the precondition that fails, None when the run goes on
PreconditionFailure(raw_text, current_roster) ==
    IF \A i \in 1..Len(raw_text) : Strip(raw_text[i]) = << >> THEN "declined_text"
    ELSE IF current_roster = {} THEN "declined_roster"
    ELSE None

\* an INSERT without the unique index
db_try_mark_game_processed_NoIndex(processed, team_key, game_hash, insert_ok) == insert_ok

\* INSERT into processed_games: TRUE when the row went in
db_try_mark_game_processed(processed, team_key, game_hash, insert_ok) ==
    insert_ok /\ <<team_key, game_hash>> \notin processed

\* from the click to the dedup mark
ProcessCheck(s) ==
    /\ pc[s] = "clicked" /\ run[s].op = "process"
    /\ \E insert_ok \in BOOLEAN :
        LET team_key == run[s].team_key
            gkey == game_key_from_pbp(team_key, run[s].raw_text)
            failure == PreconditionFailure(run[s].raw_text, run[s].current_roster)
            Stop(msg) == /\ Finish(s, msg)
                         /\ processing_game' = [processing_game EXCEPT ![s] = FALSE]
                         /\ lock_age' = [lock_age EXCEPT ![s] = LockAgeCap]
                         /\ UNCHANGED db
        IN  IF processing_game[s]
            THEN /\ Finish(s, "busy")
                 /\ UNCHANGED <<db, lock>>
            ELSE IF failure # None
            THEN Stop(failure)
            ELSE IF ~db_try_mark_game_processed(db_processed, team_key, gkey, insert_ok)
            THEN Stop("duplicate")
            ELSE /\ db_processed' = db_processed \cup {<<team_key, gkey>>}
                 /\ processing_game' = [processing_game EXCEPT ![s] = TRUE]
                 /\ lock_age' = [lock_age EXCEPT ![s] = 0]
                 /\ pc' = [pc EXCEPT ![s] = "marked"]
                 /\ run' = [run EXCEPT ![s].ld.processed_set = @ \cup {gkey}]
                 /\ UNCHANGED <<db_totals, db_rosters, result>>
    /\ UNCHANGED <<hist, game>>

\* DELETE from processed_games; a failure is swallowed
db_unmark_game_processed(processed, team_key, game_hash, delete_ok) ==
    IF delete_ok THEN processed \ {<<team_key, game_hash>>} ELSE processed

\* the saved games-played counter
GamesPlayedToSave(processed_set) == Cardinality(processed_set)

BagAdd(b, x) == [y \in DOMAIN b \cup {x} |-> IF y = x THEN (IF x \in DOMAIN b THEN b[x] + 1 ELSE 1) ELSE b[y]]

\* the game record of every input of Process Game, computed once
GameTable == [t \in RawTexts \cup KeyTexts \cup TeamTexts, r \in Rosters, st \in BOOLEAN |-> AggregateGame(t, r, st)]

\* from the dedup mark to the end of the run
\* the merge and the save of the game record g into the loaded season ld
MergeAndSave(s, team_key, gkey, ld, merged, save_ok, select_ok) ==
    IF save_ok
    THEN /\ db_totals' = db_save_season_totals(db_totals, team_key, merged[1], merged[2],
                                               GamesPlayedToSave(ld.processed_set), ld.archived_players, None,
                                               select_ok)
         /\ h_merged' = BagAdd(h_merged, <<team_key, gkey>>)
         /\ Finish(s, "ok")
         /\ UNCHANGED db_processed
    ELSE /\ Finish(s, "db_error")
         /\ UNCHANGED <<db_totals, db_processed, h_merged>>

\* the end of the try block on the game record g
ProcessEnd(s, team_key, gkey, ld, g, save_ok, delete_ok, select_ok) ==
    IF g.err
    THEN /\ db_processed' = db_unmark_game_processed(db_processed, team_key, gkey, delete_ok)
         /\ Finish(s, "failed")
         /\ UNCHANGED <<db_totals, h_merged>>
    ELSE MergeAndSave(s, team_key, gkey, ld,
                      add_game_to_season(ld.season_team, ld.season_players, g.team, g.players), save_ok, select_ok)

\* from the dedup mark to the end of the run
ProcessFinish(s) ==
    /\ pc[s] = "marked"
    /\ \E save_ok \in BOOLEAN, delete_ok \in BOOLEAN, select_ok \in BOOLEAN :
        ProcessEnd(s, run[s].team_key, game_key_from_pbp(run[s].team_key, run[s].raw_text), run[s].ld,
                   GameTable[run[s].raw_text, run[s].current_roster, run[s].strict_mode], save_ok, delete_ok, select_ok)
    /\ processing_game' = [processing_game EXCEPT ![s] = FALSE]
    /\ lock_age' = [lock_age EXCEPT ![s] = LockAgeCap]
    /\ UNCHANGED <<db_rosters, h_unarchived, h_reset, game>>

Next ==
    \E s \in Sessions :
        \/ ClickProcess(s)
        \/ ClickSaveRoster(s)
        \/ ClickSaveNotes(s)
        \/ ClickReset(s)
        \/ ProcessCheck(s)
        \/ ProcessFinish(s)
        \/ SaveRoster(s)
        \/ SaveNotes(s)
        \/ ResetSeason(s)

Spec == Init /\ [][Next]_vars

(***************************************************************************)
(* The handlers over a season that an earlier version stored: the records  *)
(* of the row have the location and type keys only, the payload no meta.   *)
(***************************************************************************)
LegacyKeys == SeqToSet(LOCATION_KEYS) \cup SeqToSet(BALLTYPE_KEYS)

LegacyRecord == [k \in LegacyKeys |-> IF k \in {"SS", "GB"} THEN 1 ELSE 0]

LegacyRow == [data |-> [team |-> [k \in LegacyKeys |-> IF k \in {"SS", "GB"} THEN 2 ELSE 0],
                        players |-> [p \in {JS} |-> LegacyRecord],
                        meta |-> NoMeta],
              games_played |-> 1]

InitLegacy ==
    /\ db_totals = [t \in Teams |-> LegacyRow]
    /\ db_processed = {}
    /\ db_rosters = [t \in Teams |-> {JS}]
    /\ processing_game = [s \in Sessions |-> FALSE]
    /\ lock_age = [s \in Sessions |-> LockAgeCap]
    /\ pc = [s \in Sessions |-> "idle"]
    /\ run = [s \in Sessions |-> NoRun]
    /\ result = [s \in Sessions |-> "none"]
    /\ h_merged = EmptyBag
    /\ h_unarchived = {}
    /\ h_reset = {}
    /\ GameOff

\* the rosters of the text area: the stored player with a new one, nobody
LegacyRosters == {{JS, BJ}, {}}

LegacyClick(s) ==
    \E t \in Teams, r \in LegacyRosters :
        \/ \E raw \in RawTexts, strict \in BOOLEAN : Click(s, "process", t, raw, r, strict, None)
        \/ Click(s, "roster", t, << >>, r, FALSE, None)
        \/ \E n \in NoteTexts : Click(s, "notes", t, << >>, r, FALSE, n)
        \/ Click(s, "reset", t, << >>, r, FALSE, None)

NextLegacy ==
    \E s \in Sessions :
        \/ LegacyClick(s)
        \/ ProcessCheck(s)
        \/ ProcessFinish(s)
        \/ SaveRoster(s)
        \/ SaveNotes(s)
        \/ ResetSeason(s)

SpecLegacy == InitLegacy /\ [][NextLegacy]_vars

(***************************************************************************)
(* Process Game and Save Roster from an empty season, over transcripts     *)
(* with every family of keys                                               *)
(***************************************************************************)
KeysClick(s) ==
    \E t \in Teams, r \in Rosters :
        \/ \E raw \in KeyTexts, strict \in BOOLEAN : Click(s, "process", t, raw, r, strict, None)
        \/ Click(s, "roster", t, << >>, r, FALSE, None)

NextKeys ==
    \E s \in Sessions :
        \/ KeysClick(s)
        \/ ProcessCheck(s)
        \/ ProcessFinish(s)
        \/ SaveRoster(s)

SpecKeys == Init /\ [][NextKeys]_vars

(***************************************************************************)
(* Two teams in one database: Process Game on a transcript pasted in       *)
(* several layouts, and Reset Season, for either team.                     *)
(***************************************************************************)
TeamKeys == {"t1", "t2"}

TeamRoster == {JS, BJ}

InitTeams ==
    /\ db_totals = [t \in TeamKeys |-> NoRow]
    /\ db_processed = {}
    /\ db_rosters = [t \in TeamKeys |-> TeamRoster]
    /\ processing_game = [s \in Sessions |-> FALSE]
    /\ lock_age = [s \in Sessions |-> LockAgeCap]
    /\ pc = [s \in Sessions |-> "idle"]
    /\ run = [s \in Sessions |-> NoRun]
    /\ result = [s \in Sessions |-> "none"]
    /\ h_merged = EmptyBag
    /\ h_unarchived = {}
    /\ h_reset = {}
    /\ GameOff

TeamsClick(s) ==
    \E t \in TeamKeys :
        \/ \E raw \in TeamTexts : Click(s, "process", t, raw, TeamRoster, FALSE, None)
        \/ Click(s, "reset", t, << >>, TeamRoster, FALSE, None)

NextTeams ==
    \E s \in Sessions :
        \/ TeamsClick(s)
        \/ ProcessCheck(s)
        \/ ProcessFinish(s)
        \/ ResetSeason(s)

SpecTeams == InitTeams /\ [][NextTeams]_vars

(***************************************************************************)
(* The processing lock over time: a session whose session_state may hold   *)
(* a lock that a run left set, Process Game clicks, and the clock.         *)
(***************************************************************************)
LockRosters == {{}, {JS}}

InitLock ==
    /\ db_totals = [t \in Teams |-> NoRow]
    /\ db_processed = {}
    /\ db_rosters = [t \in Teams |-> {}]
    /\ processing_game \in [Sessions -> BOOLEAN]
    /\ lock_age \in [Sessions -> 0..LockAgeCap]
    /\ \A s \in Sessions : ~processing_game[s] => lock_age[s] = LockAgeCap
    /\ pc = [s \in Sessions |-> "idle"]
    /\ run = [s \in Sessions |-> NoRun]
    /\ result = [s \in Sessions |-> "none"]
    /\ h_merged = EmptyBag
    /\ h_unarchived = {}
    /\ h_reset = {}
    /\ GameOff

LockClick(s) ==
    \E t \in Teams, raw \in RawTexts, r \in LockRosters, strict \in BOOLEAN :
        StartRun(s, "process", t, raw, r, strict, None)

\* a second passes
Tick(s) ==
    /\ lock_age[s] < LockAgeCap
    /\ lock_age' = [lock_age EXCEPT ![s] = @ + 1]
    /\ UNCHANGED <<db, processing_game, pc, run, result, hist, game>>

NextLock ==
    \E s \in Sessions :
        \/ LockClick(s)
        \/ ProcessCheck(s)
        \/ ProcessFinish(s)
        \/ Tick(s)

\* a script run goes on to its end, time passes, and the coach clicks again
SpecLock ==
    /\ InitLock
    /\ [][NextLock]_vars
    /\ \A s \in Sessions :
           /\ WF_vars(LockClick(s))
           /\ WF_vars(ProcessCheck(s))
           /\ WF_vars(ProcessFinish(s))
           /\ WF_vars(Tick(s))

(***************************************************************************)
(* Process Game from two browser sessions on the same team: every session  *)
(* has a script thread and a session_state of its own, the tables are      *)
(* shared, and the runs interleave at their database calls.                *)
(***************************************************************************)
BrowserSessions == {"s1", "s2"}

BrowserRosters == {{JS, BJ}}

InitBrowsers ==
    /\ db_totals = [t \in Teams |-> NoRow]
    /\ db_processed = {}
    /\ db_rosters = [t \in Teams |-> {JS, BJ}]
    /\ processing_game = [s \in BrowserSessions |-> FALSE]
    /\ lock_age = [s \in BrowserSessions |-> LockAgeCap]
    /\ pc = [s \in BrowserSessions |-> "idle"]
    /\ run = [s \in BrowserSessions |-> NoRun]
    /\ result = [s \in BrowserSessions |-> "none"]
    /\ h_merged = EmptyBag
    /\ h_unarchived = {}
    /\ h_reset = {}
    /\ GameOff

\* a session clicks Process Game, whatever the other session does
BrowserClick(s) ==
    \E t \in Teams, raw \in RawTexts, r \in BrowserRosters, strict \in BOOLEAN :
        StartRun(s, "process", t, raw, r, strict, None)

NextBrowsers ==
    \E s \in BrowserSessions :
        \/ BrowserClick(s)
        \/ ProcessCheck(s)
        \/ ProcessFinish(s)

SpecBrowsers == InitBrowsers /\ [][NextBrowsers]_vars

(***************************************************************************)
(* One game, line by line: the loop of Process Game over a transcript,     *)
(* a roster and a strict flag drawn from the inputs.                       *)
(***************************************************************************)
InitGameOver(texts) ==
    /\ InitSeason
    /\ a_text \in texts
    /\ a_roster \in GameRosters
    /\ a_strict \in BOOLEAN
    /\ a_i = 0
    /\ a_g = NewGame(a_roster)
    /\ a_bip = 0
    /\ a_pc = "loop"
    /\ PitchingOff
    /\ ClassificationOff

InitGame == InitGameOver(GameTexts)

\* the line reaches the ball-in-play recording of the loop body
ReachesBipBody(g, clean_line, ll, bn) ==
    /\ clean_line # << >>
    /\ ~IsHeader(ll)
    /\ BatterOf(bn, MarkAtBat(g, ll, bn).ctx) # NoPlayer
    /\ is_ball_in_play(ll)

ReachesBipWords(g, clean_line, roster) ==
    ReachesBipBody(g, clean_line, LowerLine(clean_line), get_batter_name(clean_line, roster))

ReachesBip(g, line, roster) == ReachesBipWords(g, CleanLine(line), roster)

GameLine ==
    /\ a_pc = "loop"
    /\ ~a_g.err
    /\ a_i < Len(SplitLines(a_text))
    /\ a_i' = a_i + 1
    /\ a_g' = LineStep(a_g, SplitLines(a_text)[a_i + 1], a_roster, a_strict)
    /\ a_bip' = IF ReachesBip(a_g, SplitLines(a_text)[a_i + 1], a_roster) THEN a_bip + 1 ELSE a_bip
    /\ UNCHANGED <<a_text, a_roster, a_strict, a_pc, season, pitching, classification>>

GameEnd ==
    /\ a_pc = "loop"
    /\ a_g.err \/ a_i = Len(SplitLines(a_text))
    /\ a_g' = EndGame(a_g)
    /\ a_pc' = "done"
    /\ UNCHANGED <<a_text, a_roster, a_strict, a_i, a_bip, season, pitching, classification>>

NextGame == GameLine \/ GameEnd

SpecGame == InitGame /\ [][NextGame]_vars

\* one game over the lines of bunts
SpecBunts == InitGameOver(BuntTexts) /\ [][NextGame]_vars

(***************************************************************************)
(* Properties                                                              *)
(***************************************************************************)
PlayersOf(totals, t) == IF totals[t] = NoRow THEN [p \in {} |-> empty_stat_dict] ELSE totals[t].data.players

TeamOf(totals, t) == IF totals[t] = NoRow THEN empty_stat_dict ELSE totals[t].data.team

ArchivedOf(totals, t) ==
    IF totals[t] # NoRow /\ "archived_players" \in DOMAIN totals[t].data.meta
    THEN totals[t].data.meta["archived_players"] ELSE {}

GamesPlayedOf(totals, t) == IF totals[t] = NoRow THEN 0 ELSE totals[t].games_played

MarkOf(s) == <<run[s].team_key, game_key_from_pbp(run[s].team_key, run[s].raw_text)>>

IsBlankText(raw_text) == \A i \in 1..Len(raw_text) : \A j \in 1..Len(raw_text[i]) : raw_text[i][j] = WS

\* a step of session s that runs the Process Game handler from the click on
ProcessCallStep(s) == pc[s] = "clicked" /\ run[s].op = "process" /\ pc'[s] # "clicked"

\* a step of session s that ends a Process Game attempt whose hash was marked
AttemptEndStep(s) == pc[s] = "marked" /\ pc'[s] = "idle"

\* a step of session s that is a Save Roster that saved
RosterSavedStep(s) == pc[s] = "clicked" /\ run[s].op = "roster" /\ result'[s] = "roster_saved"

\* C1: a Process Game call for a transcript whose hash is in the ledger of the
\* team is rejected, as already processed whenever the roster is not empty,
\* and leaves the stored season totals and the ledger as they were
C1_DuplicateRejected ==
    [][\A s \in Sessions :
          (ProcessCallStep(s) /\ MarkOf(s) \in db_processed)
              => /\ pc'[s] = "idle"
                 /\ result'[s] \in {"duplicate", "declined_roster"}
                 /\ (run[s].current_roster # {} => result'[s] = "duplicate")
                 /\ db_totals' = db_totals
                 /\ db_processed' = db_processed]_vars

\* C1 as stated: every Process Game call for a transcript whose hash is in
\* the ledger of the team is rejected as already processed, and leaves the
\* stored season totals and the ledger as they were
C1_AlwaysAlreadyProcessed ==
    [][\A s \in Sessions :
          (ProcessCallStep(s) /\ MarkOf(s) \in db_processed)
              => /\ pc'[s] = "idle"
                 /\ result'[s] = "duplicate"
                 /\ db_totals' = db_totals
                 /\ db_processed' = db_processed]_vars

\* C1 witness: a call was rejected as a duplicate of a merged transcript
C1_Witness ==
    \E s \in Sessions : /\ result[s] = "duplicate"
                        /\ \E x \in db_processed : x \in DOMAIN h_merged /\ GamesPlayedOf(db_totals, x[1]) >= 1

\* C2: when an attempt that marked its hash ends in a failure, the hash is
\* out of the ledger and the stored season totals are as before
C2_FailureRollsBack ==
    [][\A s \in Sessions :
          (AttemptEndStep(s) /\ result'[s] \in {"failed", "db_error"})
              => /\ MarkOf(s) \notin db_processed'
                 /\ db_totals' = db_totals]_vars

\* C3: when no Process Game is in flight, a hash is in the ledger of a team
\* if and only if its game record was added to the stored totals exactly once
C3_LedgerIffMergedOnce ==
    AllIdle => \A t \in Teams, raw \in RawTexts :
                   LET x == <<t, game_key_from_pbp(t, raw)>>
                   IN  (x \in db_processed) <=> (x \in DOMAIN h_merged /\ h_merged[x] = 1)

\* C4: when no operation is in flight, the stored games-played counter is
\* the number of distinct transcripts merged since the last reset
C4_GamesPlayedCountsMerges ==
    AllIdle => \A t \in Teams : GamesPlayedOf(db_totals, t) = Cardinality({x \in DOMAIN h_merged : x[1] = t})

\* C5: a Save Roster with roster R keeps every player record of the stored
\* season as it was, and every such player outside R is archived after it
C5_RemovedPlayersArchived ==
    [][\A s \in Sessions :
          RosterSavedStep(s)
              => LET t == run[s].team_key
                 IN  \A p \in DOMAIN PlayersOf(db_totals, t) :
                         /\ p \in DOMAIN PlayersOf(db_totals', t)
                         /\ PlayersOf(db_totals', t)[p] = PlayersOf(db_totals, t)[p]
                         /\ (p \notin run[s].current_roster => p \in ArchivedOf(db_totals', t))]_vars

\* C5 witness: after a Save Roster a player with counts is archived, off the roster
C5_Witness ==
    \E s \in Sessions, t \in Teams :
        /\ result[s] = "roster_saved"
        /\ \E p \in ArchivedOf(db_totals, t) :
               /\ p \notin db_rosters[t]
               /\ p \in DOMAIN PlayersOf(db_totals, t)
               /\ PlayersOf(db_totals, t)[p] # empty_stat_dict

\* C6: after a Save Roster with roster R no player of R is archived, and a
\* player it took out of the archived set has the record it had
C6_ArchivedDisjointFromRoster ==
    [][\A s \in Sessions :
          RosterSavedStep(s)
              => LET t == run[s].team_key
                 IN  /\ ArchivedOf(db_totals', t) \cap run[s].current_roster = {}
                     /\ \A p \in ArchivedOf(db_totals, t) \cap run[s].current_roster :
                            /\ p \in DOMAIN PlayersOf(db_totals, t) => PlayersOf(db_totals', t)[p] = PlayersOf(db_totals, t)[p]
                            /\ p \in DOMAIN PlayersOf(db_totals', t)]_vars

\* C6 witness: the last Save Roster unarchived a player who has counts
C6_Witness ==
    \E s \in Sessions, t \in Teams :
        /\ result[s] = "roster_saved"
        /\ \E p \in h_unarchived :
               /\ p \in db_rosters[t]
               /\ p \notin ArchivedOf(db_totals, t)
               /\ PlayersOf(db_totals, t)[p] # empty_stat_dict

\* a ball-in-play line with a batter of the roster, no bunt, no location phrase
HasUnknownLocationLine(raw_text, roster) ==
    \E i \in 1..Len(SplitLines(raw_text)) :
        LET clean_line == CleanLine(SplitLines(raw_text)[i])
            ll == LowerLine(clean_line)
        IN  /\ get_batter_name(clean_line, roster) # NoPlayer
            /\ ~IsHeader(ll)
            /\ is_ball_in_play(ll)
            /\ ~IsBuntLine(ll)
            /\ classify_location(ll, FALSE) = None

\* C7: with strict mode off, a game with a ball in play of unknown location
\* is merged, and the team count of the unknown-location bucket grows
C7_UnknownLocationCounted ==
    [][\A s \in Sessions :
          (/\ AttemptEndStep(s)
           /\ ~run[s].strict_mode
           /\ HasUnknownLocationLine(run[s].raw_text, run[s].current_roster)
           /\ result'[s] # "db_error")
              => /\ result'[s] = "ok"
                 /\ Get(TeamOf(db_totals', run[s].team_key), "UNKNOWN") > Get(TeamOf(db_totals, run[s].team_key), "UNKNOWN")]_vars

\* C8: a ball-in-play line whose leading name is no player of the roster
\* changes no counter of the team or of a player and raises nothing
C8_UnresolvedLineCountsNothing ==
    [][(a_pc = "loop" /\ a_i' = a_i + 1)
          => LET clean_line == CleanLine(SplitLines(a_text)[a_i + 1])
                 ll == LowerLine(clean_line)
             IN  (get_batter_name(clean_line, a_roster) = NoPlayer /\ ~IsHeader(ll) /\ is_ball_in_play(ll))
                     => (a_g'.team = a_g.team /\ a_g'.players = a_g.players /\ ~a_g'.err)]_vars

\* C9: a Process Game call with an empty or white-space transcript, or with
\* an empty roster, is declined and leaves ledger and season totals alone
C9_EmptyInputDeclined ==
    [][\A s \in Sessions :
          (ProcessCallStep(s) /\ (IsBlankText(run[s].raw_text) \/ run[s].current_roster = {}))
              => /\ pc'[s] = "idle"
                 /\ result'[s] \in {"declined_text", "declined_roster"}
                 /\ db_totals' = db_totals
                 /\ db_processed' = db_processed]_vars

\* C9 witness: a call was declined while the ledger held a merged game
C9_Witness ==
    \E s \in Sessions : /\ result[s] \in {"declined_text", "declined_roster"}
                        /\ db_processed # {}
                        /\ \E t \in Teams : GamesPlayedOf(db_totals, t) >= 1

RECURSIVE SumKeys(_, _)
SumKeys(d, ks) ==
    IF ks = {} THEN 0
    ELSE LET k == CHOOSE x \in ks : TRUE IN Get(d, k) + SumKeys(d, ks \ {k})

\* the combination counters of d add up to its types, its locations to both
CombosAddUp(d) ==
    /\ SumKeys(d, {ComboKey("GB", loc) : loc \in SeqToSet(LOCATION_KEYS)}) = Get(d, "GB")
    /\ SumKeys(d, {ComboKey("FB", loc) : loc \in SeqToSet(LOCATION_KEYS)}) = Get(d, "FB")
    /\ SumKeys(d, SeqToSet(LOCATION_KEYS)) = Get(d, "GB") + Get(d, "FB")

\* C11: in the stored season of every team, for the team and for every
\* player, the GB-<loc> counters add up to GB, the FB-<loc> counters to FB,
\* and the eight location counters to GB + FB
C11_CombosAddUp ==
    \A t \in Teams :
        /\ CombosAddUp(TeamOf(db_totals, t))
        /\ \A p \in DOMAIN PlayersOf(db_totals, t) : CombosAddUp(PlayersOf(db_totals, t)[p])

\* C11 witness: a season of two merged games with ground balls and fly balls
C11_Witness ==
    \E t \in Teams :
        /\ GamesPlayedOf(db_totals, t) >= 2
        /\ TeamOf(db_totals, t)["GB"] >= 1
        /\ TeamOf(db_totals, t)["FB"] >= 2
        /\ \E p \in DOMAIN PlayersOf(db_totals, t) : PlayersOf(db_totals, t)[p]["FB-CF"] >= 2

\* a step of the loop of one game over its next line
LineStepTaken == a_pc = "loop" /\ a_i' = a_i + 1

\* the line that step runs over, cleaned
CurLine == CleanLine(SplitLines(a_text)[a_i + 1])

\* the line has a steal or caught-stealing phrase
IsStealLine(clean_line) == SB_ACTION_REGEX(clean_line) # 0 \/ CS_ACTION_REGEX(clean_line) # 0

\* the words in front of the steal phrase, after the last comma
RunnerChunk(clean_line) ==
    AfterLastComma(SubSeq(clean_line, 1,
        (IF SB_ACTION_REGEX(clean_line) # 0 THEN SB_ACTION_REGEX(clean_line) ELSE CS_ACTION_REGEX(clean_line)) - 1))

\* no word in front of the steal phrase is the last name of a roster player
RunnerUnresolvable(clean_line, roster) ==
    \A i \in 1..Len(RunnerChunk(clean_line)), r \in roster :
        Lower(RunnerChunk(clean_line)[i]) # Lower(r[Len(r)])

\* the counts of the keys ks are the same in the loop states g and h
SameCounts(g, h, ks) ==
    /\ \A k \in ks : Get(h.team, k) = Get(g.team, k)
    /\ \A p \in DOMAIN g.players : \A k \in ks : Get(h.players[p], k) = Get(g.players[p], k)

\* C12: a steal or caught-stealing line whose runner, the name in front of
\* the phrase, is no player of the roster changes no running-event counter
\* of the team or of a player
C12_UnresolvedRunnerCountsNothing ==
    [][(LineStepTaken /\ IsStealLine(CurLine) /\ RunnerUnresolvable(CurLine, a_roster))
          => SameCounts(a_g, a_g', RUN_KEYS)]_vars

\* C13: every line with a steal or caught-stealing event of a resolved
\* runner adds one to the family counter and to the base counter of the
\* team and of the runner
C13_EveryRunningEventCounted ==
    [][(LineStepTaken /\ parse_running_event(CurLine, a_roster).runner # NoPlayer)
          => \A k \in {parse_running_event(CurLine, a_roster).total_key,
                       parse_running_event(CurLine, a_roster).base_key} :
                 /\ a_g'.team[k] = a_g.team[k] + 1
                 /\ a_g'.players[parse_running_event(CurLine, a_roster).runner][k]
                        = a_g.players[parse_running_event(CurLine, a_roster).runner][k] + 1]_vars

\* the keys of the balls in play
BipCounterKeys == SeqToSet(LOCATION_KEYS) \cup SeqToSet(BALLTYPE_KEYS) \cup COMBO_KEYS \cup {BUNTS_KEY}

\* C14: a line recognized as a steal or caught-stealing event changes no
\* location, ball-type, combination or Bunts counter
C14_RunningEventIsNoBallInPlay ==
    [][(LineStepTaken /\ parse_running_event(CurLine, a_roster).runner # NoPlayer)
          => SameCounts(a_g, a_g', BipCounterKeys)]_vars

\* the cleaned lines of the transcript of the game that name the player p
LinesNaming(p) ==
    {i \in 1..Len(SplitLines(a_text)) : NamedIn(p, CleanLine(SplitLines(a_text)[i]))}

\* C15: after a game, a roster player whom the transcript names in
\* courtesy-runner lines only has no games-played credit
C15_CourtesyRunnerGetsNoGP ==
    (a_pc = "done" /\ ~a_g.err)
        => \A p \in a_roster :
               (/\ LinesNaming(p) # {}
                /\ \A i \in LinesNaming(p) : IsCourtesy(LowerLine(CleanLine(SplitLines(a_text)[i]))))
                   => a_g.players[p][GP_KEY] = 0

\* C16: after a game, the games-played credit of every roster player is 0
\* or 1, and 0 for a player no line of the transcript names
C16_GamesPlayedAtMostOne ==
    (a_pc = "done" /\ ~a_g.err)
        => \A p \in a_roster :
               /\ a_g.players[p][GP_KEY] \in {0, 1}
               /\ LinesNaming(p) = {} => a_g.players[p][GP_KEY] = 0

\* the roster entries whose last word is the word w
LastNameMatches(w, roster) == {r \in roster : r[Len(r)] = w}

\* C20: on a line whose first word is the last word of exactly one roster
\* entry the resolver returns that entry, on one whose first word is the
\* last word of two or more entries it returns none, and it never returns
\* a name that is not in the roster
C20_LastNameResolution ==
    [][LineStepTaken
          => /\ Cardinality(LastNameMatches(CurLine[1], a_roster)) = 1
                    => get_batter_name(CurLine, a_roster) \in LastNameMatches(CurLine[1], a_roster)
             /\ Cardinality(LastNameMatches(CurLine[1], a_roster)) >= 2
                    => get_batter_name(CurLine, a_roster) = NoPlayer
             /\ get_batter_name(CurLine, a_roster) # NoPlayer
                    => get_batter_name(CurLine, a_roster) \in a_roster]_vars

(***************************************************************************)
(* classify_ball_type on one lower-case line                               *)
(***************************************************************************)
TypeWords == {"grounds", "chopper", "lines", "flies", "sacrifice", "fly", "bunts", "singles"}

\* the words of a line, at most
MaxTypeWords == 3

TypeLines == UNION {[1..n -> TypeWords] : n \in 1..MaxTypeWords}

InitClassify ==
    /\ InitSeason
    /\ a_text = << >>
    /\ a_roster = {}
    /\ a_strict = FALSE
    /\ a_i = 0
    /\ a_g = NewGame({})
    /\ a_bip = 0
    /\ a_pc = "off"
    /\ PitchingOff
    /\ c_line \in TypeLines
    /\ c_type = Unclassified

ClassifyType ==
    /\ c_type = Unclassified
    /\ c_type' = classify_ball_type(c_line)
    /\ UNCHANGED <<c_line, season, a_text, a_roster, a_strict, a_i, a_g, a_bip, a_pc, pitching>>

SpecClassify == InitClassify /\ [][ClassifyType]_vars

(***************************************************************************)
(* One pitching pass, line by line                                         *)
(***************************************************************************)
InitPitching ==
    /\ InitSeason
    /\ a_text = << >>
    /\ a_roster = {}
    /\ a_strict = FALSE
    /\ a_i = 0
    /\ a_g = NewGame({})
    /\ a_bip = 0
    /\ a_pc = "off"
    /\ ClassificationOff
    /\ p_pc = "pass"
    /\ p_st = NewPitchingState
    /\ p_half = 0
    /\ p_n = 0
    /\ h_credited = EmptyBag
    /\ h_named = {}
    /\ h_pending = EmptyBag
    /\ h_buffered = {}

BagPlus(b, x, n) == [y \in DOMAIN b \cup {x} |-> IF y = x THEN Get(b, x) + n ELSE b[y]]

\* the outs of the pending buffer, credited to pitcher half-inning by half-inning
CreditPending(credited, pending, pitcher) ==
    [y \in DOMAIN credited \cup {<<pitcher, h>> : h \in DOMAIN pending} |->
        Get(credited, y) + (IF y[1] = pitcher /\ y[2] \in DOMAIN pending THEN pending[y[2]] ELSE 0)]

PitchLine ==
    /\ p_pc = "pass"
    /\ p_n < MaxPitchLines
    /\ p_n' = p_n + 1
    /\ UNCHANGED <<p_pc, season, a_text, a_roster, a_strict, a_i, a_g, a_bip, a_pc, classification>>

PitchHeaderLine ==
    /\ PitchLine
    /\ \E batting_team \in TeamNames : p_st' = HalfInningHeader(p_st, batting_team)
    /\ p_half' = p_half + 1
    /\ h_pending' = IF p_st'.pending.outs = 0 THEN EmptyBag ELSE h_pending
    /\ UNCHANGED <<h_credited, h_named, h_buffered>>

PitchNamedLine ==
    /\ PitchLine
    /\ \E name \in Pitchers :
        /\ p_st' = PitcherNamed(p_st, name)
        /\ h_named' = h_named \cup {<<name, p_half>>}
        /\ h_credited' = CreditPending(h_credited, h_pending, name)
        /\ h_buffered' = h_buffered \cup {<<name, h>> : h \in DOMAIN h_pending}
    /\ h_pending' = EmptyBag
    /\ UNCHANGED p_half

\* where the outs of an outs marker went, from the state before and after it
PitchOutsHistory(st, after, delta) ==
    IF ~st.fielding_ours \/ delta = 0
    THEN UNCHANGED <<h_credited, h_pending, h_buffered>>
    ELSE IF st.active # UnknownPitcher
    THEN /\ h_credited' = BagPlus(h_credited, <<st.active, p_half>>, delta)
         /\ UNCHANGED <<h_pending, h_buffered>>
    ELSE IF after.pending.outs = 0
    THEN /\ h_credited' = CreditPending(h_credited, BagPlus(h_pending, p_half, delta), UnknownPitcher)
         /\ h_pending' = EmptyBag
         /\ h_buffered' = h_buffered \cup {<<UnknownPitcher, h>> : h \in DOMAIN h_pending \cup {p_half}}
    ELSE /\ h_pending' = BagPlus(h_pending, p_half, delta)
         /\ UNCHANGED <<h_credited, h_buffered>>

PitchOutsLine ==
    /\ PitchLine
    /\ \E outs \in p_st.last_outs..OutsPerHalfInning :
        /\ p_st' = OutsMarker(p_st, outs)
        /\ PitchOutsHistory(p_st, p_st', outs - p_st.last_outs)
    /\ UNCHANGED <<p_half, h_named>>

PitchStrikeoutLine ==
    /\ PitchLine
    /\ p_st' = StrikeoutDetail(p_st)
    /\ UNCHANGED <<p_half, h_credited, h_named, h_pending, h_buffered>>

NextPitching == PitchHeaderLine \/ PitchNamedLine \/ PitchOutsLine \/ PitchStrikeoutLine

SpecPitching == InitPitching /\ [][NextPitching]_vars

\* the stat record d has every recognized key, with a count
FullyKeyed(d) == AllKeys \subseteq DOMAIN d /\ \A k \in DOMAIN d : d[k] \in Nat

\* the loaded record d is the stored record raw with its missing keys at 0
LoadedFrom(d, raw) ==
    /\ FullyKeyed(d)
    /\ \A k \in DOMAIN raw : d[k] = raw[k]
    /\ \A k \in AllKeys \ DOMAIN raw : d[k] = 0

\* the season ld is the load of the row with the roster
LoadedSeasonOK(ld, row, roster) ==
    /\ LoadedFrom(ld.season_team, IF row = NoRow THEN empty_stat_dict ELSE row.data.team)
    /\ roster \subseteq DOMAIN ld.season_players
    /\ \A p \in DOMAIN ld.season_players :
           LoadedFrom(ld.season_players[p],
                      IF row # NoRow /\ p \in DOMAIN row.data.players THEN row.data.players[p] ELSE empty_stat_dict)

\* the records of the stored row are fully keyed
StoredRowOK(row) ==
    /\ FullyKeyed(row.data.team)
    /\ \A p \in DOMAIN row.data.players : FullyKeyed(row.data.players[p])

\* C17: the team record and every player record of a season a run loads has
\* every recognized key, the stored counts kept and the missing keys at 0,
\* and so has every record of a row that a handler saves
C17_RecordsFullyKeyed ==
    [][/\ \A s \in Sessions :
              (pc[s] = "idle" /\ pc'[s] = "clicked" /\ run'[s].op # "roster")
                  => LoadedSeasonOK(run'[s].ld, db_totals[run'[s].team_key], run'[s].current_roster)
       /\ \A t \in Teams :
              (db_totals'[t] # db_totals[t] /\ db_totals'[t] # NoRow) => StoredRowOK(db_totals'[t])]_vars

\* C17 witness: a game was merged into a season loaded from a row of an
\* earlier version, for a roster with a player the row did not have
C17_Witness ==
    \E s \in Sessions, t \in Teams :
        /\ result[s] = "ok"
        /\ db_totals[t] # NoRow
        /\ BJ \in DOMAIN db_totals[t].data.players
        /\ db_totals[t].data.players[JS]["SS"] >= 1
        /\ db_totals[t].data.team["GB"] = 3
        /\ db_totals[t].data.team["GB-SS"] = 1

\* the session s is between its dedup mark and the end of its Process Game
InFlight(s) == pc[s] = "marked"

\* C19: no two Process Game runs on the same team are in flight at once,
\* also when they come from different sessions
C19_OneProcessGameInFlight ==
    \A s1 \in DOMAIN pc, s2 \in DOMAIN pc :
        (s1 # s2 /\ InFlight(s1) /\ InFlight(s2)) => run[s1].team_key # run[s2].team_key

RECURSIVE SumCredited(_, _)
\* the outs of the entries xs of the credit history
SumCredited(credited, xs) ==
    IF xs = {} THEN 0
    ELSE LET x == CHOOSE y \in xs : TRUE
         IN  credited[x] + SumCredited(credited, xs \ {x})

\* the outs in the record of pitcher
RecordedOuts(pitcher) == IF pitcher \in DOMAIN p_st.records THEN p_st.records[pitcher].outs ELSE 0

\* C18: the outs in a pitcher's record come from half-innings in which a
\* line named that pitcher, or are in the record of the unknown-pitcher
\* sentinel; the pending buffer holds outs of the current half-inning only;
\* the three outs of a defensive half-inning that reached three outs are all
\* in the records of the pitchers named in it or of the sentinel
C18_OutsStayInHalfInning ==
    /\ \A x \in DOMAIN h_credited :
           h_credited[x] > 0 => (x[1] = UnknownPitcher \/ x \in h_named)
    /\ \A q \in Pitchers \cup {UnknownPitcher} :
           RecordedOuts(q) = SumCredited(h_credited, {x \in DOMAIN h_credited : x[1] = q})
    /\ \A h \in DOMAIN h_pending : h = p_half
    /\ p_st.pending.outs = SumCredited(h_pending, DOMAIN h_pending)
    /\ (p_st.fielding_ours /\ p_st.last_outs = OutsPerHalfInning)
           => SumCredited(h_credited, {x \in DOMAIN h_credited : x[2] = p_half}) = OutsPerHalfInning

\* C18 witness: two defensive half-innings in a row, the first with outs of
\* P1, the second with outs seen before the line naming P2 and now in the
\* record of P2
C18_Witness ==
    \E h \in 1..MaxPitchLines :
        /\ Get(h_credited, <<"P1", h>>) > 0
        /\ Get(h_credited, <<"P2", h + 1>>) > 0
        /\ <<"P2", h + 1>> \in h_buffered
        /\ RecordedOuts("P1") = Get(h_credited, <<"P1", h>>)

\* the phrase families of the ball type in the line ll
SacFlyIn(ll) == \E i \in 1..(Len(ll) - 1) : ll[i] \in {"sac", "sacrifice"} /\ ll[i + 1] = "fly"

LineDriveIn(ll) == \E i \in 1..Len(ll) : ll[i] \in {"line", "lines", "lined"}

GroundBallIn(ll) == \E i \in 1..Len(ll) : ll[i] \in {"grounds", "grounder", "chopper"}

FlyBallIn(ll) == \E i \in 1..Len(ll) : ll[i] \in {"fly", "flies", "flied", "pops"}

BuntIn(ll) == \E i \in 1..Len(ll) : ll[i] \in {"bunt", "bunts"}

\* C21: the ball type of a line without a bunt is FB with a sac-fly or a
\* line-drive phrase, also beside a ground-ball phrase; else GB with a
\* ground-ball phrase, also beside a fly-ball phrase; else FB with a fly-ball
\* phrase; else undetermined
C21_BallTypePrecedence ==
    (c_type # Unclassified /\ ~BuntIn(c_line)) =>
        /\ (SacFlyIn(c_line) \/ LineDriveIn(c_line)) => c_type = "FB"
        /\ (~SacFlyIn(c_line) /\ ~LineDriveIn(c_line) /\ GroundBallIn(c_line)) => c_type = "GB"
        /\ (~SacFlyIn(c_line) /\ ~LineDriveIn(c_line) /\ ~GroundBallIn(c_line) /\ FlyBallIn(c_line)) => c_type = "FB"
        /\ (~SacFlyIn(c_line) /\ ~LineDriveIn(c_line) /\ ~GroundBallIn(c_line) /\ ~FlyBallIn(c_line)) => c_type = None

\* C21 witness: a line with a line-drive, a ground-ball and a fly-ball phrase
\* was classified
C21_Witness ==
    /\ c_type = "FB"
    /\ LineDriveIn(c_line) /\ GroundBallIn(c_line) /\ FlyBallIn(c_line)
    /\ ~SacFlyIn(c_line) /\ ~BuntIn(c_line)

\* the line is a ball in play with a bunt or a sacrifice hit
BuntInPlay(ll) ==
    /\ is_ball_in_play(ll)
    /\ HasPhrase(ll, <<"bunt">>) \/ HasPhrase(ll, <<"sacrifice", "hit">>)

\* the game record h is g with one more bunt of the team and of batter
OneMoreBunt(g, h, batter) ==
    /\ h.team[BUNTS_KEY] = g.team[BUNTS_KEY] + 1
    /\ \A p \in DOMAIN g.players :
           h.players[p][BUNTS_KEY] = g.players[p][BUNTS_KEY] + (IF p = batter THEN 1 ELSE 0)

\* C22: a ball-in-play line with a bunt or a sacrifice hit whose batter is
\* resolved (its leading name, else the last batter at bat) adds one to Bunts
\* of the team and of that player, and changes no GB, FB, location or
\* combination counter
C22_BuntsCountOnlyBunts ==
    [][(LineStepTaken /\ ~a_g.err /\ BuntInPlay(LowerLine(CurLine))
          /\ BatterOf(get_batter_name(CurLine, a_roster), a_g.ctx) # NoPlayer)
          => /\ OneMoreBunt(a_g, a_g', BatterOf(get_batter_name(CurLine, a_roster), a_g.ctx))
             /\ SameCounts(a_g, a_g', BipCounterKeys \ {BUNTS_KEY})]_vars

\* C22 witness: a game of a sacrifice hit with a fielder and of a sacrifice
\* bunt, with two bunts of the team and no other ball in play counted
C22_Witness ==
    /\ a_pc = "done" /\ ~a_g.err
    /\ a_text = <<L_SacHit, L_SacBunt>>
    /\ a_g.team[BUNTS_KEY] = 2
    /\ a_g.players[JS][BUNTS_KEY] = 1
    /\ \A k \in BipCounterKeys \ {BUNTS_KEY} : a_g.team[k] = 0

\* the session s is in a Process Game run
Processing(s) == pc[s] # "idle" /\ run[s].op = "process"

\* the row new has every player of the row old, those outside roster unchanged
PlayersKept(old, new, roster) ==
    old # NoRow =>
        /\ new # NoRow
        /\ DOMAIN old.data.players \subseteq DOMAIN new.data.players
        /\ \A p \in DOMAIN old.data.players \ roster : new.data.players[p] = old.data.players[p]

\* C23: a step of Process Game removes no player from the stored season and
\* leaves the record of every stored player outside the current roster as it
\* was
C23_ProcessKeepsOtherPlayers ==
    [][\A s \in Sessions :
          Processing(s) => PlayersKept(db_totals[run[s].team_key], db_totals'[run[s].team_key],
                                       run[s].current_roster)]_vars

\* C23 witness: two games are merged, the second one without B Jones on the
\* roster, whose record is the one of the first game
C23_Witness ==
    \E s \in Sessions, t \in Teams :
        /\ result[s] = "ok"
        /\ db_totals[t] # NoRow
        /\ db_totals[t].games_played = 2
        /\ BJ \in DOMAIN db_totals[t].data.players
        /\ db_totals[t].data.players[BJ][GP_KEY] = 1
        /\ db_totals[t].data.players[BJ]["FB-CF"] = 1
        /\ db_totals[t].data.players[JS][GP_KEY] = 2

RECURSIVE SumOverPlayers(_, _, _)
\* the sum of the key k over the players ps of the mapping players
SumOverPlayers(players, ps, k) ==
    IF ps = {} THEN 0
    ELSE LET p == CHOOSE q \in ps : TRUE
         IN  Get(players[p], k) + SumOverPlayers(players, ps \ {p}, k)

\* the keys the team and the batter or runner are credited together
PairedKeys == KEYS \ {GP_KEY}

\* C24: in every stored season, for every location, ball-type, combination,
\* running-event and Bunts key, the team total is the sum of the key over
\* all stored players, archived ones included
C24_TeamIsSumOfPlayers ==
    \A t \in Teams :
        db_totals[t] # NoRow =>
            \A k \in PairedKeys :
                db_totals[t].data.team[k]
                    = SumOverPlayers(db_totals[t].data.players, DOMAIN db_totals[t].data.players, k)

\* C24 witness: a season of three games with steals of two players, a
\* caught stealing, a bunt and batted balls, one of the players archived
C24_Witness ==
    \E t \in Teams :
        /\ db_totals[t] # NoRow
        /\ db_totals[t].games_played = 3
        /\ "archived_players" \in DOMAIN db_totals[t].data.meta
        /\ BJ \in db_totals[t].data.meta["archived_players"]
        /\ db_totals[t].data.players[BJ]["SB-2B"] = 1
        /\ db_totals[t].data.players[JS]["SB-2B"] = 1
        /\ db_totals[t].data.team["SB"] = 2
        /\ db_totals[t].data.team["CS-3B"] = 1
        /\ db_totals[t].data.team[BUNTS_KEY] = 1
        /\ db_totals[t].data.team["GB-SS"] = 1

\* the meta of the row new has every entry of the meta of the row old but
\* the archived list
NotesKept(old, new) ==
    (old # NoRow /\ new # NoRow) =>
        \A k \in DOMAIN old.data.meta \ {"archived_players"} :
            k \in DOMAIN new.data.meta /\ new.data.meta[k] = old.data.meta[k]

\* C25: a step of Process Game or of Save Roster leaves the coach notes and
\* the player notes in the stored meta of the team as they were
C25_SavesKeepNotes ==
    [][\A s \in Sessions :
          (pc[s] # "idle" /\ run[s].op \in {"process", "roster"})
              => NotesKept(db_totals[run[s].team_key], db_totals'[run[s].team_key])]_vars

\* the run of session s ended and was not refused by the lock
Accepted(s) == pc[s] = "idle" /\ result[s] \notin {"busy", "none"}

\* C26: a Process Game run that got past the lock check ends with the lock
\* cleared; a lock that is set is cleared later on; and after a click that
\* the lock refused, a later click is accepted
C26_LockAlwaysReleased ==
    /\ [][\A s \in Sessions :
              (pc[s] # "idle" /\ pc'[s] = "idle" /\ result'[s] # "busy") => ~processing_game'[s]]_vars
    /\ \A s \in Sessions : processing_game[s] ~> ~processing_game[s]
    /\ \A s \in Sessions : (result[s] = "busy") ~> Accepted(s)

\* C26 witness: a click was refused by a lock left set, and the lock is now
\* older than the failsafe time
C26_Witness ==
    \E s \in Sessions :
        /\ pc[s] = "idle"
        /\ result[s] = "busy"
        /\ processing_game[s]
        /\ lock_age[s] > FAILSAFE_SECONDS

C28_DuplicateOnlyWhenInLedger ==
    [][\A s \in Sessions :
          (ProcessCallStep(s) /\ result'[s] = "duplicate") => MarkOf(s) \in db_processed]_vars

\* the transcript with its blank lines dropped and every run of white space
\* in and around its lines collapsed
Squeeze(text) == SelectSeq([i \in 1..Len(text) |-> Collapse(text[i])], LAMBDA l : l # << >>)

\* the ledger of the team of the run of s has a transcript that differs from
\* the one of the run in white space only
SameGameInLedger(s) ==
    \E x \in db_processed : x[1] = run[s].team_key /\ Squeeze(x[2][2]) = Squeeze(run[s].raw_text)

\* C29: a Process Game call on a transcript that differs only in blank lines
\* and white space from one in the ledger of its team is rejected as a
\* duplicate, and a ledger entry belongs to one team: the same hash is never
\* in the ledger of two teams
C29_HashOfNormalizedTranscript ==
    /\ [][\A s \in Sessions :
              (ProcessCallStep(s) /\ ~processing_game[s] /\ run[s].current_roster # {} /\ SameGameInLedger(s))
                  => result'[s] = "duplicate"]_vars
    /\ [](\A x \in db_processed, y \in db_processed : x[2] = y[2] => x[1] = y[1])

\* a step of session s that is a Reset Season with both deletes done
ResetDoneStep(s) == pc[s] = "clicked" /\ run[s].op = "reset" /\ result'[s] = "reset"

\* the season a script run loads for team t
SeasonOf(totals, processed, t) == db_load_season_totals(totals, processed, t, TeamRoster)

\* C30: after a Reset Season of a team that went through, the ledger of the
\* team is empty, the season it loads has a games-played counter of 0 and
\* totals of 0 for the team and for every player, the dedup mark takes every
\* transcript the ledger held before, and the row and the ledger of every
\* other team are as they were
C30_ResetClearsOneTeam ==
    [][\A s \in Sessions :
          ResetDoneStep(s) =>
              LET t == run[s].team_key
                  after == SeasonOf(db_totals', db_processed', t)
              IN  /\ \A x \in db_processed' : x[1] # t
                  /\ after.processed_set = {}
                  /\ after.games_played = 0
                  /\ after.season_team = empty_stat_dict
                  /\ \A p \in DOMAIN after.season_players : after.season_players[p] = empty_stat_dict
                  /\ \A x \in db_processed : x[1] = t => db_try_mark_game_processed(db_processed', t, x[2], TRUE)
                  /\ \A u \in DOMAIN db_totals \ {t} :
                         /\ db_totals'[u] = db_totals[u]
                         /\ {x \in db_processed' : x[1] = u} = {x \in db_processed : x[1] = u}]_vars

\* C30 witness: a Reset Season went through on a team that had processed
\* transcripts, and another team has a season of its own
C30_Witness ==
    \E s \in Sessions, t \in DOMAIN db_totals, u \in DOMAIN db_totals :
        /\ pc[s] = "idle" /\ result[s] = "reset"
        /\ \E x \in h_reset : x[1] = t
        /\ db_totals[t] = NoRow
        /\ u # t
        /\ GamesPlayedOf(db_totals, u) >= 1
        /\ \E x \in db_processed : x[1] = u

====
